---- MODULE Spec2Model ----
(***************************************************************************)
(* A model of the OMP/JCMT database access class OMPDB (lib/omp/db/db.py): *)
(* the ingestion eligibility scan find_obs_for_ingestion, the ingestion   *)
(* mark set_last_caom_mod and the cross-table rename_project, together    *)
(* with the store behaviour and the other writers they depend on.         *)
(*                                                                         *)
(* Time is counted in ticks; TicksPerHour ticks make one hour.  The clock  *)
(* `now` is UTC; the store's session ("SYSTEM") time is now + tz.          *)
(***************************************************************************)
EXTENDS Integers, Sequences, FiniteSets, TLC

VARIABLES
    now,        \* the store's clock, UTC, in ticks
    tz,         \* offset of the store's SYSTEM time zone from UTC, in ticks
    common,     \* jcmt.COMMON: obsid -> row
    obslog,     \* omp.ompobslog: sequence of rows, obslogid = position
    transfer,   \* jcmt.FILES joined with jcmt.transfer: file_id -> status
    hist,       \* per obsid: what is known of the set_last_caom_mod calls so far
    ncalls,     \* the number of set_last_caom_mod calls made so far
    rows,       \* the rows of the omp tables that carry a projectid
    writer,     \* the caller holding the read-write transaction scope
    ren,        \* per caller: its rename_project call
    held,       \* per client: the transaction scope it has open
    op,         \* per client: its set_last_caom_mod or find_obs_for_ingestion call
    input,      \* the arguments of a call of a query builder or a report
    output,     \* what that call returned
    attrs       \* the record shapes kept as attributes of the class and its objects

vars == <<now, tz, common, obslog, transfer, hist, ncalls, rows, writer, ren, held, op,
          input, output, attrs>>


----------------------------------------------------------------------------
(* Bounds of the model *)

\* The clock advances at most this many ticks.
MaxTicks == 1
\* Ticks per hour.
TicksPerHour == 2
\* The clock reading in the initial state: late enough for an observation
\* taken four hours earlier to have timestamps above 0.
Epoch == 4 * TicksPerHour + 2
\* At most this many calls of set_last_caom_mod are made.
MaxCalls == 3
\* At most this many rows are ever written to omp.ompobslog.
MaxComments == 2
\* At most this many rows exist in the tables keyed by projectid.
MaxRows == 2

----------------------------------------------------------------------------
(* SQL values *)

\* SQL NULL and Python None; every timestamp of the model is >= 0.
NULL == -1

\* SQL truth values: "T" true, "F" false, "U" unknown (NULL).
SqlBool(b) == IF b THEN "T" ELSE "F"

SqlOr(a, b) ==
    IF a = "T" \/ b = "T" THEN "T"
    ELSE IF a = "U" \/ b = "U" THEN "U" ELSE "F"

SqlAnd(a, b) ==
    IF a = "F" \/ b = "F" THEN "F"
    ELSE IF a = "U" \/ b = "U" THEN "U" ELSE "T"

\* The conditions of a sequence joined with OR, and joined with AND.
SqlOrAll(s) ==
    IF \E i \in DOMAIN s : s[i] = "T" THEN "T"
    ELSE IF \E i \in DOMAIN s : s[i] = "U" THEN "U" ELSE "F"

SqlAndAll(s) ==
    IF \E i \in DOMAIN s : s[i] = "F" THEN "F"
    ELSE IF \E i \in DOMAIN s : s[i] = "U" THEN "U" ELSE "T"

SqlIsNull(a) == SqlBool(a = NULL)
SqlLt(a, b) == IF a = NULL \/ b = NULL THEN "U" ELSE SqlBool(a < b)
SqlGt(a, b) == SqlLt(b, a)
SqlGe(a, b) == IF a = NULL \/ b = NULL THEN "U" ELSE SqlBool(a >= b)
SqlLe(a, b) == SqlGe(b, a)
\* NULL in a column of strings.
NullStr == "NULL"
SqlNotIn(a, S) == IF a = NullStr THEN "U" ELSE SqlBool(a \notin S)

\* MAX() over a set of values: NULLs are skipped, NULL when nothing is left.
SqlMax(S) ==
    LET V == S \ {NULL}
    IN  IF V = {} THEN NULL ELSE CHOOSE m \in V : \A v \in V : v <= m

\* NOW(): the current time in the session (SYSTEM) time zone.
SqlNow == now + tz
\* UTC_TIMESTAMP()
SqlUtcTimestamp == now
\* The conversion left out: the commentdate compared as it is stored.
ConvertTzOmitted(t) == t

\* CONVERT_TZ(t, "+00:00", "SYSTEM")
ConvertTzUtcToSystem(t) == IF t = NULL THEN NULL ELSE t + tz

\* TIMESTAMPDIFF(HOUR, a, b): the whole hours from a to b, truncated.
TimestampDiffHour(a, b) ==
    IF a = NULL \/ b = NULL THEN NULL
    ELSE IF b >= a THEN (b - a) \div TicksPerHour
    ELSE 0 - ((a - b) \div TicksPerHour)

----------------------------------------------------------------------------
(* The observation tables *)

Obsids == {"o1", "o2"}
FileIds == {"f1", "f2"}
\* jcmt.FILES: the observation each file belongs to.
FileObsid(f) == "o1"


\* The transfer states that no longer block ingestion.
TerminalStatus == {"t", "d", "D", "z"}
\* "c" is the state of a transfer still in progress; "none": the file has no
\* row in jcmt.transfer.
TransferStatus == TerminalStatus \cup {"c", "none"}

Columns == {"utdate", "instrume", "date_obs", "last_modified", "last_caom_mod"}

\* The rows of jcmt.COMMON before anything is ingested: last_modified is the
\* session time of the write that created the row, last_caom_mod is NULL.
NewCommonRow(utdate, instrume, date_obs) ==
    [utdate |-> utdate, instrume |-> instrume, date_obs |-> date_obs,
     last_modified |-> date_obs + tz, last_caom_mod |-> NULL]

\* An UPDATE of one row of jcmt.COMMON: `set` maps the assigned columns to
\* their new values.  last_modified is declared ON UPDATE CURRENT_TIMESTAMP:
\* the store sets it to NOW() unless the statement assigns it.
StoreUpdate(row, set) ==
    [c \in Columns |->
        IF c \in DOMAIN set THEN set[c]
        ELSE IF c = "last_modified" THEN SqlNow
        ELSE row[c]]

----------------------------------------------------------------------------
(* find_obs_for_ingestion *)

\* The commentdate of every row of omp.ompobslog for the obsid.
CommentDates(obsid) ==
    {obslog[i].commentdate : i \in {j \in DOMAIN obslog : obslog[j].obsid = obsid}}

\* The count with "z" missing from the list of terminal states.
PendingTransfersShortList(obsid) ==
    Cardinality({f \in FileIds :
        /\ FileObsid(f) = obsid
        /\ transfer[f] # "none"
        /\ SqlNotIn(transfer[f], {"t", "d", "D"}) = "T"})

\* (SELECT COUNT(*) FROM jcmt.FILES AS f JOIN jcmt.transfer AS t ...
\*  WHERE f.obsid=c.obsid AND t.status NOT IN ("t", "d", "D", "z"))
PendingTransfers(obsid) ==
    Cardinality({f \in FileIds :
        /\ FileObsid(f) = obsid
        /\ transfer[f] # "none"
        /\ SqlNotIn(transfer[f], {"t", "d", "D", "z"}) = "T"})

DateConditions(row, utdate_start, utdate_end) ==
    (IF utdate_start # NULL THEN <<SqlGe(row.utdate, utdate_start)>> ELSE <<>>)
    \o (IF utdate_end # NULL THEN <<SqlLe(row.utdate, utdate_end)>> ELSE <<>>)

InstrumentCondition(row, ignore_instruments) ==
    IF ignore_instruments # {}
    THEN <<SqlNotIn(row.instrume, ignore_instruments)>> ELSE <<>>

\* min_age_hours is given in ticks (TicksPerHour ticks to the hour), so the
\* whole hours of TIMESTAMPDIFF are scaled before they are compared with it.
AgeCondition(row, min_age_hours) ==
    IF min_age_hours # NULL
    THEN <<SqlGe(TimestampDiffHour(row.date_obs, SqlUtcTimestamp) * TicksPerHour,
                 min_age_hours)>>
    ELSE <<>>

CommentCondition(obsid, row) ==
    SqlLt(row.last_caom_mod, ConvertTzUtcToSystem(SqlMax(CommentDates(obsid))))

\* The status condition without its "last_caom_mod IS NULL" clause.
StatusConditionNoNullClause(obsid, row, no_status_check) ==
    SqlOrAll(<<SqlGt(row.last_modified, row.last_caom_mod)>>
             \o (IF ~no_status_check THEN <<CommentCondition(obsid, row)>> ELSE <<>>))

StatusCondition(obsid, row, no_status_check) ==
    SqlOrAll(<<SqlIsNull(row.last_caom_mod),
               SqlGt(row.last_modified, row.last_caom_mod)>>
             \o (IF ~no_status_check THEN <<CommentCondition(obsid, row)>> ELSE <<>>))

TransferCondition(obsid, no_transfer_check) ==
    IF ~no_transfer_check THEN <<SqlBool(PendingTransfers(obsid) = 0)>> ELSE <<>>

Where(obsid, utdate_start, utdate_end, no_status_check, no_transfer_check, ignore_instruments, min_age_hours) ==
    LET row == common[obsid]
    IN  SqlAndAll(DateConditions(row, utdate_start, utdate_end)
                  \o InstrumentCondition(row, ignore_instruments)
                  \o AgeCondition(row, min_age_hours)
                  \o <<StatusCondition(obsid, row, no_status_check)>>
                  \o TransferCondition(obsid, no_transfer_check))

\* Whether the row of the obsid is selected by the query.
Selected(obsid, utdate_start, utdate_end, no_status_check, no_transfer_check, ignore_instruments, min_age_hours) ==
    Where(obsid, utdate_start, utdate_end, no_status_check, no_transfer_check,
          ignore_instruments, min_age_hours) = "T"

\* The obsids returned; the order of the list is the store's and not modelled.
FindObsForIngestion(utdate_start, utdate_end, no_status_check, no_transfer_check, ignore_instruments, min_age_hours) ==
    {o \in Obsids :
        Selected(o, utdate_start, utdate_end, no_status_check, no_transfer_check,
                 ignore_instruments, min_age_hours)}

\* The arguments the callers pass.
StartArgs == {NULL, 20200102}
EndArgs == {NULL, 20200101}
IgnoreArgs == {{}, {"HARP"}}
MinAgeArgs == {NULL, 0, 1, 4 * TicksPerHour}

----------------------------------------------------------------------------
(* set_last_caom_mod *)

\* The SET list with set_null ignored.
QueryAlwaysNow(row, set_null) ==
    [c \in {"last_caom_mod", "last_modified"} |->
        IF c = "last_caom_mod" THEN SqlNow ELSE row.last_modified]

\* The SET list with the two values of set_null exchanged.
QueryExchanged(row, set_null) ==
    [c \in {"last_caom_mod", "last_modified"} |->
        IF c = "last_caom_mod" THEN (IF set_null THEN SqlNow ELSE NULL)
        ELSE row.last_modified]

\* The SET list without the assignment of last_modified.
QueryNotPinned(row, set_null) ==
    [c \in {"last_caom_mod"} |-> IF set_null THEN NULL ELSE SqlNow]

\* The SET list of the UPDATE statement.
SetLastCaomModQuery(row, set_null) ==
    [c \in {"last_caom_mod", "last_modified"} |->
        IF c = "last_caom_mod" THEN (IF set_null THEN NULL ELSE SqlNow)
        ELSE row.last_modified]

\* The statement runs in a read-write transaction scope of its own.
SetLastCaomMod(obsid, set_null) ==
    /\ writer = "none"
    /\ common' = [common EXCEPT ![obsid] =
                     StoreUpdate(@, SetLastCaomModQuery(@, set_null))]
    /\ UNCHANGED <<now, tz, obslog, transfer, rows, writer, ren, held, op, input, attrs, output>>

\* What is remembered of the calls for one obsid: the kinds ("mark" for
\* set_null=False, "reset" for set_null=True) of the last three calls, the
\* value of last_caom_mod before the last call, the last value other than
\* NULL a call left there, whether a mark was ever made, and whether the
\* last call was a mark with no comment and no metadata change since.
NoCalls ==
    [kinds |-> <<>>, before |-> NULL, top |-> NULL, marked |-> FALSE,
     clean |-> FALSE]

LastThree(s) == IF Len(s) <= 3 THEN s ELSE Tail(s)

RecordCall(obsid, set_null) ==
    /\ ncalls < MaxCalls
    /\ ncalls' = ncalls + 1
    /\ hist' = [hist EXCEPT ![obsid] =
        [kinds |-> LastThree(Append(@.kinds, IF set_null THEN "reset" ELSE "mark")),
         before |-> common[obsid].last_caom_mod,
         top |-> IF common'[obsid].last_caom_mod # NULL
                 THEN common'[obsid].last_caom_mod ELSE @.top,
         marked |-> @.marked \/ ~set_null,
         clean |-> ~set_null]]

RecordChange(obsid) ==
    /\ hist' = [hist EXCEPT ![obsid].clean = FALSE]
    /\ UNCHANGED ncalls

\* No call of a query builder or a report has been made.
NoInput == [op |-> "none"]
NoOutput == [done |-> FALSE]

\* The OMPDB objects of one process, and the attributes that hold a record
\* shape: CommonInfo, FullObservationInfo and FaultInfo.
Instances == {"db1", "db2"}
Families == {"CommonInfo", "FullObservationInfo", "FaultInfo"}

\* The value None of an attribute, and the mark of an object that has no
\* attribute of its own under a name.
NoneShape == [id |-> 0, fields |-> <<>>]
Absent == [id |-> NULL, fields |-> <<>>]

\* The attributes after the class statement and the construction of the
\* objects: the class has the three attributes, all None; __init__ gives an
\* object none of them.  `built` counts the shapes made, by family.
NoAttrs ==
    [class |-> [f \in Families |-> NoneShape],
     inst |-> [i \in Instances |-> [f \in Families |-> Absent]],
     built |-> [f \in Families |-> 0]]

----------------------------------------------------------------------------
(* The clients of one OMPDB object and its lock *)

\* The callers of rename_project, of set_last_caom_mod and of
\* find_obs_for_ingestion.
Callers == {"c1"}
Markers == {"m1", "m2"}
Scanners == {"s1"}
LockClients == Callers \cup Markers \cup Scanners

\* A transaction scope is opened: a read-write scope waits until no other
\* read-write scope is open; a read-only scope excludes nobody.
LockAcquire(c, read_write) ==
    /\ read_write => writer = "none"
    /\ writer' = IF read_write THEN c ELSE writer
    /\ held' = [held EXCEPT ![c] = IF read_write THEN "rw" ELSE "ro"]

\* The scope is left, by the end of its block or by an exception.
LockRelease(c) ==
    /\ writer' = IF writer = c THEN "none" ELSE writer
    /\ held' = [held EXCEPT ![c] = "none"]

\* A client's call: "idle" (no call yet), "scope" (in its transaction scope,
\* before the statement), "executed" (the statement has run), "done"
\* (returned), "error" (the store raised an error), and its arguments.
NoOp == [pc |-> "idle", obsid |-> "", set_null |-> FALSE]

----------------------------------------------------------------------------
(* rename_project *)

Projects == {"M20AI001", "M20AI002", "M20AI003"}

\* The list `tables` of rename_project.
Tables ==
    <<"ompfaultassoc", "ompfeedback", "ompmsb", "ompmsbdone", "ompobs", "ompobs",
      "ompproj", "ompprojaffiliation", "ompprojqueue", "ompprojuser",
      "ompsciprog", "omptimeacct">>

TableNames == {Tables[i] : i \in DOMAIN Tables}

\* SELECT COUNT(*) FROM omp.<table> WHERE projectid=<project>
CountRows(table, project) ==
    Cardinality({r \in rows : r.tbl = table /\ r.projectid = project})

\* The UPDATE with its two parameters exchanged.
UpdateProjectidExchanged(table, project_old, project_new) ==
    {IF r.tbl = table /\ r.projectid = project_new
     THEN [r EXCEPT !.projectid = project_old] ELSE r : r \in rows}

\* The UPDATE without its WHERE clause.
UpdateProjectidEveryRow(table, project_old, project_new) ==
    {IF r.tbl = table THEN [r EXCEPT !.projectid = project_new] ELSE r : r \in rows}

\* UPDATE omp.<table> SET projectid=<project_new> WHERE projectid=<project_old>
UpdateProjectid(table, project_old, project_new) ==
    {IF r.tbl = table /\ r.projectid = project_old
     THEN [r EXCEPT !.projectid = project_new] ELSE r : r \in rows}

\* The check made of the first table only.
ExistingInFirstTable(project_new) ==
    {i \in {1} : CountRows(Tables[i], project_new) # 0}

\* The positions in `tables` whose table holds a row of the new project.
Existing(project_new) ==
    {i \in DOMAIN Tables : CountRows(Tables[i], project_new) # 0}

Min(S) == CHOOSE m \in S : \A x \in S : m <= x

\* A caller's call: where it is ("idle": no call yet; "checked": between the
\* two transaction scopes; "updating": in the read-write scope, about to
\* run the UPDATE for Tables[i]; "done": returned; "failed": raised
\* OMPDBError naming table err), its arguments, the rows when the call began
\* and whether nobody else has written a row since.
NoRename ==
    [pc |-> "idle", old |-> "", new |-> "", i |-> 0, err |-> "",
     before |-> {}, alone |-> TRUE]

\* Somebody other than caller c writes: the calls of the others are no
\* longer alone.
Disturbed(c) ==
    [d \in Callers |-> IF d # c /\ ren[d].pc # "idle"
                        THEN [ren[d] EXCEPT !.alone = FALSE] ELSE ren[d]]

\* The check made in the read-write scope, which is then kept for the updates.
RenameCheckInWriteScope(c, project_old, project_new) ==
    /\ ren[c].pc \in {"idle", "done", "failed"}
    /\ writer = "none"
    /\ LET call == [pc |-> "checked", old |-> project_old, new |-> project_new,
                    i |-> 0, err |-> "", before |-> rows, alone |-> TRUE]
           hits == Existing(project_new)
       IN  /\ ren' = [ren EXCEPT ![c] =
                      IF hits # {}
                      THEN [call EXCEPT !.pc = "failed", !.err = Tables[Min(hits)]]
                      ELSE call]
           /\ writer' = IF hits # {} THEN "none" ELSE c
    /\ UNCHANGED <<now, tz, common, obslog, transfer, hist, ncalls, rows, held, op, input, attrs, output>>

\* The call and its first transaction scope (read-only): the loop that counts
\* the rows of the new project, and raises at the first table that has one.
RenameCheck(c, project_old, project_new) ==
    /\ ren[c].pc \in {"idle", "done", "failed"}
    /\ LET call == [pc |-> "checked", old |-> project_old, new |-> project_new,
                    i |-> 0, err |-> "", before |-> rows, alone |-> TRUE]
           hits == Existing(project_new)
       IN  ren' = [ren EXCEPT ![c] =
                      IF hits # {}
                      THEN [call EXCEPT !.pc = "failed", !.err = Tables[Min(hits)]]
                      ELSE call]
    /\ UNCHANGED <<now, tz, common, obslog, transfer, hist, ncalls, rows, writer, held, op, input, attrs, output>>

\* The second transaction scope (read-write) is entered.
RenameBegin(c) ==
    /\ ren[c].pc = "checked"
    /\ writer = "none"
    /\ writer' = c
    /\ held' = [held EXCEPT ![c] = "rw"]
    /\ ren' = [ren EXCEPT ![c].pc = "updating", ![c].i = 1]
    /\ UNCHANGED <<now, tz, common, obslog, transfer, hist, ncalls, rows, op, input, attrs, output>>

\* One pass of the loop of the second scope: the UPDATE of one table.
RenameUpdate(c) ==
    /\ ren[c].pc = "updating"
    /\ ren[c].i <= Len(Tables)
    /\ rows' = UpdateProjectid(Tables[ren[c].i], ren[c].old, ren[c].new)
    /\ ren' = [IF rows' # rows THEN Disturbed(c) ELSE ren
                  EXCEPT ![c].i = ren[c].i + 1]
    /\ UNCHANGED <<now, tz, common, obslog, transfer, hist, ncalls, writer, held, op, input, attrs, output>>

\* The second scope is left and the call returns.
RenameEnd(c) ==
    /\ ren[c].pc = "updating"
    /\ ren[c].i > Len(Tables)
    /\ writer' = "none"
    /\ held' = [held EXCEPT ![c] = "none"]
    /\ ren' = [ren EXCEPT ![c].pc = "done"]
    /\ UNCHANGED <<now, tz, common, obslog, transfer, hist, ncalls, rows, op, input, attrs, output>>

\* Another writer of the store, not a caller of this client, inserts a row
\* keyed by a project into one of the tables.
InsertRow(table, project) ==
    /\ Cardinality(rows) < MaxRows
    /\ LET id == Min((1..MaxRows) \ {r.id : r \in rows})
       IN  rows' = rows \cup {[id |-> id, tbl |-> table, projectid |-> project]}
    /\ ren' = Disturbed("none")
    /\ UNCHANGED <<now, tz, common, obslog, transfer, hist, ncalls, writer, held, op, input, attrs, output>>

----------------------------------------------------------------------------
(* The clock and the other writers of the observation tables *)

Tick ==
    /\ now < Epoch + MaxTicks
    /\ now' = now + 1
    /\ UNCHANGED <<tz, common, obslog, transfer, hist, ncalls, rows, writer, ren, held, op, input, attrs, output>>

\* A comment is logged for the observation: a new active row, dated in UTC.
AddComment(obsid) ==
    /\ Len(obslog) < MaxComments
    /\ obslog' = Append(obslog, [obsid |-> obsid, commentdate |-> SqlUtcTimestamp,
                                 obsactive |-> 1])
    /\ UNCHANGED <<now, tz, common, transfer, rows, writer, ren, held, op, input, attrs, output>>

\* A comment is superseded or withdrawn: its row is kept, marked inactive.
DeactivateComment(i) ==
    /\ obslog[i].obsactive = 1
    /\ obslog' = [obslog EXCEPT ![i].obsactive = 0]
    /\ UNCHANGED <<now, tz, common, transfer, hist, ncalls, rows, writer, ren, held, op, input, attrs, output>>

\* Another writer changes the observation's metadata: an UPDATE of the row
\* that does not assign last_modified (the changed columns are not modelled).
ModifyObs(obsid) ==
    /\ common' = [common EXCEPT ![obsid] = StoreUpdate(@, <<>>)]
    /\ UNCHANGED <<now, tz, obslog, transfer, rows, writer, ren, held, op, input, attrs, output>>

\* The transfer of a file moves to another state.
TransferUpdate(f, status) ==
    /\ transfer[f] # status
    /\ transfer' = [transfer EXCEPT ![f] = status]
    /\ UNCHANGED <<now, tz, common, obslog, hist, ncalls, rows, writer, ren, held, op, input, attrs, output>>

----------------------------------------------------------------------------
(* The ingestion mark over time: set_last_caom_mod, comments and metadata *)
(* changes on every observation, with the calls remembered.               *)

\* The observations: one taken four hours before the initial state, one taken
\* one tick before it.
InitCommon ==
    [o \in Obsids |->
        IF o = "o1" THEN NewCommonRow(20200101, "SCUBA-2", Epoch - 4 * TicksPerHour)
        ELSE NewCommonRow(20200102, "HARP", Epoch - 1)]

TzOffsets == {0 - 1, 0, 1}

InitIngest ==
    /\ now = Epoch
    /\ tz \in TzOffsets
    /\ common = InitCommon
    /\ obslog = <<>>
    /\ transfer = [f \in FileIds |-> "none"]
    /\ hist = [o \in Obsids |-> NoCalls]
    /\ ncalls = 0
    /\ rows = {}
    /\ writer = "none"
    /\ ren = [c \in Callers |-> NoRename]
    /\ held = [c \in LockClients |-> "none"]
    /\ attrs = NoAttrs
    /\ op = [c \in Markers \cup Scanners |-> NoOp]
    /\ input = NoInput
    /\ output = NoOutput

NextIngest ==
    \/ Tick
    \/ \E o \in Obsids, set_null \in BOOLEAN :
          SetLastCaomMod(o, set_null) /\ RecordCall(o, set_null)
    \/ \E o \in Obsids : AddComment(o) /\ RecordChange(o)
    \/ \E o \in Obsids : ModifyObs(o) /\ RecordChange(o)

SpecIngest == InitIngest /\ [][NextIngest]_vars

----------------------------------------------------------------------------
(* The eligibility scan over the states of the store: transfers in every   *)
(* state, comments added and withdrawn on every observation, marks and      *)
(* metadata changes on the observation that has the files.  The calls are   *)
(* not remembered here.                                                     *)

ScanObsids == {o \in Obsids : \E f \in FileIds : FileObsid(f) = o}

NextScan ==
    \/ Tick
    \/ \E o \in ScanObsids, set_null \in BOOLEAN :
          SetLastCaomMod(o, set_null) /\ UNCHANGED <<hist, ncalls>>
    \/ \E o \in Obsids : AddComment(o) /\ UNCHANGED <<hist, ncalls>>
    \/ \E i \in DOMAIN obslog : DeactivateComment(i)
    \/ \E o \in ScanObsids : ModifyObs(o) /\ UNCHANGED <<hist, ncalls>>
    \/ \E f \in FileIds, st \in TransferStatus : TransferUpdate(f, st)

SpecScan == InitIngest /\ [][NextScan]_vars

----------------------------------------------------------------------------
(* Properties of the ingestion mark *)

\* The criteria of the scan other than the status condition.
OtherCriteria(obsid, utdate_start, utdate_end, no_transfer_check, ignore_instruments, min_age_hours) ==
    LET row == common[obsid]
    IN  SqlAndAll(DateConditions(row, utdate_start, utdate_end)
                  \o InstrumentCondition(row, ignore_instruments)
                  \o AgeCondition(row, min_age_hours)
                  \o TransferCondition(obsid, no_transfer_check)) = "T"

\* C1: once set_last_caom_mod(obsid) has marked an observation, every scan
\* with min_age_hours=0, whatever its date bounds and flags, leaves the obsid
\* out for as long as no comment is added, no metadata change is made and no
\* other call is made for it.
C1_MarkedIsExcluded ==
    \A o \in Obsids :
        hist[o].clean =>
            \A us \in StartArgs, ue \in EndArgs, nsc \in BOOLEAN, ntc \in BOOLEAN,
               ign \in IgnoreArgs :
                ~Selected(o, us, ue, nsc, ntc, ign, 0)

\* An observation marked at an earlier tick, commented on before the mark,
\* that passes every criterion of the scan but the status condition.
C1_Witness ==
    \E o \in Obsids :
        /\ hist[o].clean
        /\ common[o].last_caom_mod < SqlNow
        /\ CommentDates(o) # {}
        /\ OtherCriteria(o, NULL, NULL, FALSE, {}, 0)

\* The most recent active comment of an observation: the row with the
\* greatest obslogid among those with obsactive set (0 when there is none).
LastActiveComment(obsid) ==
    LET A == {i \in DOMAIN obslog :
                 obslog[i].obsid = obsid /\ obslog[i].obsactive = 1}
    IN  IF A = {} THEN 0 ELSE CHOOSE i \in A : \A j \in A : j <= i

\* C3: with no_status_check=False, an observation whose last_caom_mod is set
\* and whose last_modified is not after it satisfies the status condition
\* exactly when the commentdate of its most recent active comment is after
\* last_caom_mod.
C3_StatusIffActiveCommentNewer ==
    \A o \in Obsids :
        LET row == common[o]
            c == LastActiveComment(o)
        IN  (row.last_caom_mod # NULL /\ row.last_modified <= row.last_caom_mod) =>
                ((StatusCondition(o, row, FALSE) = "T")
                 <=> (c # 0 /\ ConvertTzUtcToSystem(obslog[c].commentdate)
                                  > row.last_caom_mod))

\* C2: an observation whose last_caom_mod is NULL and that meets the date,
\* instrument, age and transfer criteria of a scan is returned by it, whatever
\* its comments and whatever no_status_check.
C2_NeverIngestedIsFound ==
    \A o \in Obsids :
        common[o].last_caom_mod = NULL =>
            \A us \in StartArgs, ue \in EndArgs, nsc \in BOOLEAN, ntc \in BOOLEAN,
               ign \in IgnoreArgs, ma \in MinAgeArgs :
                OtherCriteria(o, us, ue, ntc, ign, ma) =>
                    Selected(o, us, ue, nsc, ntc, ign, ma)

\* An observation not ingested, with a withdrawn comment and a completed
\* transfer, returned by a scan that checks transfers and not comments.
C2_Witness ==
    \E o \in Obsids :
        /\ common[o].last_caom_mod = NULL
        /\ \E i \in DOMAIN obslog : obslog[i].obsid = o /\ obslog[i].obsactive = 0
        /\ \E f \in FileIds : FileObsid(f) = o /\ transfer[f] \in TerminalStatus
        /\ o \in FindObsForIngestion(NULL, NULL, TRUE, FALSE, {}, 4 * TicksPerHour)

\* The files of an observation whose transfer is in a state that is not
\* terminal.
NonTerminalFiles(obsid) ==
    {f \in FileIds : /\ FileObsid(f) = obsid
                     /\ transfer[f] # "none"
                     /\ transfer[f] \notin TerminalStatus}

\* C4: an observation that meets every other criterion of a scan and has a
\* file in a non-terminal transfer state is left out with
\* no_transfer_check=False and returned with no_transfer_check=True; for an
\* observation with no such file the flag makes no difference.
C4_TransferGate ==
    \A o \in Obsids :
        \A us \in StartArgs, ue \in EndArgs, nsc \in BOOLEAN, ign \in IgnoreArgs,
           ma \in MinAgeArgs :
            LET checked == Selected(o, us, ue, nsc, FALSE, ign, ma)
                unchecked == Selected(o, us, ue, nsc, TRUE, ign, ma)
                others == /\ OtherCriteria(o, us, ue, TRUE, ign, ma)
                          /\ StatusCondition(o, common[o], nsc) = "T"
            IN  IF NonTerminalFiles(o) # {}
                THEN others => (~checked /\ unchecked)
                ELSE checked <=> unchecked

\* An observation marked and then commented on, so that it is due again,
\* with one file transferred and another still in transfer.
C4_Witness ==
    \E o \in Obsids :
        /\ common[o].last_caom_mod # NULL
        /\ StatusCondition(o, common[o], FALSE) = "T"
        /\ OtherCriteria(o, NULL, NULL, TRUE, {}, 4 * TicksPerHour)
        /\ \E f \in NonTerminalFiles(o), g \in FileIds :
               FileObsid(g) = o /\ transfer[g] \in TerminalStatus

\* C5: a call with set_null=True leaves last_caom_mod NULL whatever it was; of
\* two successive calls with set_null=False for one obsid, the second leaves
\* a value not smaller than the first.
C5_Idempotent ==
    \A o \in Obsids :
        LET h == hist[o]
            n == Len(h.kinds)
            v == common[o].last_caom_mod
        IN  /\ (n >= 1 /\ h.kinds[n] = "reset") => v = NULL
            /\ (n >= 2 /\ h.kinds[n] = "mark" /\ h.kinds[n - 1] = "mark") =>
                   (h.before # NULL /\ v # NULL /\ v >= h.before)

\* Two successive marks of one observation at different ticks.
C5_Witness ==
    \E o \in Obsids :
        LET h == hist[o]
            n == Len(h.kinds)
        IN  /\ n >= 2 /\ h.kinds[n] = "mark" /\ h.kinds[n - 1] = "mark"
            /\ common[o].last_caom_mod > h.before

\* C6: set_last_caom_mod, with either value of set_null, leaves last_modified
\* of the observation as it was, and "last_modified > last_caom_mod" is not
\* true after it.
C6_LastModifiedKept ==
    [][\A o \in Obsids, set_null \in BOOLEAN :
          SetLastCaomMod(o, set_null) =>
              /\ common'[o].last_modified = common[o].last_modified
              /\ SqlGt(common'[o].last_modified, common'[o].last_caom_mod) # "T"]_vars

\* An observation just marked whose last_modified is older than the mark.
C6_Witness ==
    \E o \in Obsids :
        /\ hist[o].clean
        /\ common[o].last_caom_mod = SqlNow
        /\ common[o].last_modified < SqlNow

\* C7: last_caom_mod is NULL until the first call with set_null=False; each
\* later change either sets it to NULL, by a call with set_null=True, or
\* replaces it with a value not smaller than the last value it had.
C7_NullUntilMarked ==
    \A o \in Obsids : ~hist[o].marked => common[o].last_caom_mod = NULL

C7_ChangeIsResetOrLater ==
    \A o \in Obsids :
        LET a == common[o].last_caom_mod
            b == common'[o].last_caom_mod
        IN  a # b =>
                \/ b = NULL /\ SetLastCaomMod(o, TRUE)
                \/ b # NULL /\ (hist[o].top = NULL \/ b >= hist[o].top)

C7_NeverDecreases == []C7_NullUntilMarked /\ [][C7_ChangeIsResetOrLater]_vars

\* An observation marked, reset and marked again at a later tick.
C7_Witness ==
    \E o \in Obsids :
        /\ hist[o].kinds = <<"mark", "reset", "mark">>
        /\ common[o].last_caom_mod = hist[o].top
        /\ common[o].last_caom_mod > Epoch + tz

----------------------------------------------------------------------------
(* The renaming of projects, with another writer inserting rows *)

InitRename ==
    /\ now = Epoch
    /\ tz = 0
    /\ common = InitCommon
    /\ obslog = <<>>
    /\ transfer = [f \in FileIds |-> "none"]
    /\ hist = [o \in Obsids |-> NoCalls]
    /\ ncalls = 0
    /\ rows = {}
    /\ writer = "none"
    /\ ren = [c \in Callers |-> NoRename]
    /\ held = [c \in LockClients |-> "none"]
    /\ attrs = NoAttrs
    /\ op = [c \in Markers \cup Scanners |-> NoOp]
    /\ input = NoInput
    /\ output = NoOutput

NextRename ==
    \/ \E c \in Callers, project_old \in Projects, project_new \in Projects :
          RenameCheck(c, project_old, project_new)
    \/ \E c \in Callers : RenameBegin(c)
    \/ \E c \in Callers : RenameUpdate(c)
    \/ \E c \in Callers : RenameEnd(c)
    \/ \E t \in TableNames, p \in Projects : InsertRow(t, p)

SpecRename == InitRename /\ [][NextRename]_vars

----------------------------------------------------------------------------
(* Properties of rename_project *)

\* C8: a call made when some table holds a row of project_new fails with an
\* error naming a table that held such a row, and, nobody else having
\* written since, the rows are those the call found.
C8_ConflictFailsUnaltered ==
    \A c \in Callers :
        LET r == ren[c]
        IN  (r.pc # "idle" /\ \E x \in r.before : x.projectid = r.new) =>
                /\ r.pc = "failed"
                /\ \E x \in r.before : x.tbl = r.err /\ x.projectid = r.new
                /\ r.alone => rows = r.before

\* A failed call that found rows of project_old to rename, and the row of
\* project_new in a table that is not the first of the list.
C8_Witness ==
    \E c \in Callers :
        LET r == ren[c]
        IN  /\ r.pc = "failed"
            /\ r.alone
            /\ r.old # r.new
            /\ r.err # Tables[1]
            /\ \E x \in rows : x.projectid = r.old

\* The rows of a call's beginning with every project_old replaced.
Renamed(r) ==
    {IF x.projectid = r.old THEN [x EXCEPT !.projectid = r.new] ELSE x :
        x \in r.before}

\* C9: a call made when no table holds a row of project_new does not fail,
\* and when it has returned, nobody else having written since it began,
\* every row that was keyed by project_old is keyed by project_new and no row
\* is keyed by project_old.
C9_RenameComplete ==
    \A c \in Callers :
        LET r == ren[c]
        IN  (r.pc # "idle" /\ ~\E x \in r.before : x.projectid = r.new) =>
                /\ r.pc # "failed"
                /\ (r.pc = "done" /\ r.alone) =>
                      /\ \A x \in r.before :
                            x.projectid = r.old =>
                                [x EXCEPT !.projectid = r.new] \in rows
                      /\ ~\E x \in rows : x.projectid = r.old

\* A call that has returned after renaming rows in two tables.
C9_Witness ==
    \E c \in Callers :
        LET r == ren[c]
        IN  /\ r.pc = "done"
            /\ r.alone
            /\ r.old # r.new
            /\ \E x \in r.before, y \in r.before :
                  x.projectid = r.old /\ y.projectid = r.old /\ x.tbl # y.tbl

PhaseOneTables(r) ==
    IF r.pc = "failed"
    THEN {Tables[i] : i \in 1..Min({j \in DOMAIN Tables : Tables[j] = r.err})}
    ELSE {Tables[i] : i \in DOMAIN Tables}

PhaseTwoTables(r) ==
    IF r.pc \in {"updating", "done"} THEN {Tables[i] : i \in 1..(r.i - 1)} ELSE {}

\* C11: a call that has returned has counted, in its first phase, and
\* updated, in its second, the same tables, and they are twelve distinct
\* tables.
C11_TwelveTablesBothPhases ==
    \A c \in Callers :
        ren[c].pc = "done" =>
            /\ PhaseOneTables(ren[c]) = PhaseTwoTables(ren[c])
            /\ Cardinality(PhaseTwoTables(ren[c])) = 12

----------------------------------------------------------------------------
(* The calls step by step: each transaction scope is entered, its          *)
(* statements run one at a time, and it is left by the end of its block or *)
(* by an exception.  Several clients share the lock of one OMPDB object.   *)

Ended == {"idle", "done", "failed", "error"}

\* The scope of set_last_caom_mod opened read-only.
MarkBeginReadOnly(m, obsid, set_null) ==
    /\ op[m].pc \in Ended
    /\ ncalls < MaxCalls
    /\ ncalls' = ncalls + 1
    /\ LockAcquire(m, FALSE)
    /\ op' = [op EXCEPT ![m] = [pc |-> "scope", obsid |-> obsid, set_null |-> set_null]]
    /\ UNCHANGED <<now, tz, common, obslog, transfer, hist, rows, ren, input, attrs, output>>

\* set_last_caom_mod is called and enters its read-write scope.
MarkBegin(m, obsid, set_null) ==
    /\ op[m].pc \in Ended
    /\ ncalls < MaxCalls
    /\ ncalls' = ncalls + 1
    /\ LockAcquire(m, TRUE)
    /\ op' = [op EXCEPT ![m] = [pc |-> "scope", obsid |-> obsid, set_null |-> set_null]]
    /\ UNCHANGED <<now, tz, common, obslog, transfer, hist, rows, ren, input, attrs, output>>

\* The UPDATE statement is executed.
MarkExecute(m) ==
    /\ op[m].pc = "scope"
    /\ common' = [common EXCEPT ![op[m].obsid] =
                     StoreUpdate(@, SetLastCaomModQuery(@, op[m].set_null))]
    /\ op' = [op EXCEPT ![m].pc = "executed"]
    /\ UNCHANGED <<now, tz, obslog, transfer, hist, ncalls, rows, writer, ren, held, input, attrs, output>>

\* The scope is left and the call returns.
MarkEnd(m) ==
    /\ op[m].pc = "executed"
    /\ LockRelease(m)
    /\ op' = [op EXCEPT ![m].pc = "done"]
    /\ UNCHANGED <<now, tz, common, obslog, transfer, hist, ncalls, rows, ren, input, attrs, output>>

\* The store raises an error for the statement: the scope is left by the
\* exception, which the call passes on.
MarkError(m) ==
    /\ op[m].pc = "scope"
    /\ LockRelease(m)
    /\ op' = [op EXCEPT ![m].pc = "error"]
    /\ UNCHANGED <<now, tz, common, obslog, transfer, hist, ncalls, rows, ren, input, attrs, output>>

\* find_obs_for_ingestion is called and enters its scope, which the default
\* of transaction() makes read-only.
ScanBegin(s) ==
    /\ op[s].pc \in Ended
    /\ LockAcquire(s, FALSE)
    /\ op' = [op EXCEPT ![s] = [NoOp EXCEPT !.pc = "scope"]]
    /\ UNCHANGED <<now, tz, common, obslog, transfer, hist, ncalls, rows, ren, input, attrs, output>>

\* The query is executed and its rows fetched; the scope is left.
ScanEnd(s) ==
    /\ op[s].pc = "scope"
    /\ LockRelease(s)
    /\ op' = [op EXCEPT ![s].pc = "done"]
    /\ UNCHANGED <<now, tz, common, obslog, transfer, hist, ncalls, rows, ren, input, attrs, output>>

\* The store raises an error for the query.
ScanError(s) ==
    /\ op[s].pc = "scope"
    /\ LockRelease(s)
    /\ op' = [op EXCEPT ![s].pc = "error"]
    /\ UNCHANGED <<now, tz, common, obslog, transfer, hist, ncalls, rows, ren, input, attrs, output>>

\* rename_project is called and enters its first scope, read-only.
RenameCheckBegin(c, project_old, project_new) ==
    /\ ren[c].pc \in Ended
    /\ LockAcquire(c, FALSE)
    /\ ren' = [ren EXCEPT ![c] =
                  [pc |-> "checking", old |-> project_old, new |-> project_new,
                   i |-> 1, err |-> "", before |-> rows, alone |-> TRUE]]
    /\ UNCHANGED <<now, tz, common, obslog, transfer, hist, ncalls, rows, op, input, attrs, output>>

\* One pass of the first loop with the exception raised while the scope
\* stays open.
RenameCountKeepsScope(c) ==
    /\ ren[c].pc = "checking"
    /\ ren[c].i <= Len(Tables)
    /\ IF CountRows(Tables[ren[c].i], ren[c].new) # 0
       THEN ren' = [ren EXCEPT ![c].pc = "failed", ![c].err = Tables[ren[c].i]]
       ELSE ren' = [ren EXCEPT ![c].i = ren[c].i + 1]
    /\ UNCHANGED <<now, tz, common, obslog, transfer, hist, ncalls, rows, op,
                   writer, held, input, attrs, output>>

\* One pass of the first loop: the rows of the new project in one table are
\* counted, and OMPDBError is raised, inside the scope, if there is one.
RenameCount(c) ==
    /\ ren[c].pc = "checking"
    /\ ren[c].i <= Len(Tables)
    /\ IF CountRows(Tables[ren[c].i], ren[c].new) # 0
       THEN /\ ren' = [ren EXCEPT ![c].pc = "failed", ![c].err = Tables[ren[c].i]]
            /\ LockRelease(c)
       ELSE /\ ren' = [ren EXCEPT ![c].i = ren[c].i + 1]
            /\ UNCHANGED <<writer, held>>
    /\ UNCHANGED <<now, tz, common, obslog, transfer, hist, ncalls, rows, op, input, attrs, output>>

\* The first loop is over: the first scope is left.
RenameCheckEnd(c) ==
    /\ ren[c].pc = "checking"
    /\ ren[c].i > Len(Tables)
    /\ LockRelease(c)
    /\ ren' = [ren EXCEPT ![c].pc = "checked", ![c].i = 0]
    /\ UNCHANGED <<now, tz, common, obslog, transfer, hist, ncalls, rows, op, input, attrs, output>>

\* The store raises an error for a statement of either loop.
RenameError(c) ==
    /\ ren[c].pc \in {"checking", "updating"}
    /\ ren[c].i <= Len(Tables)
    /\ LockRelease(c)
    /\ ren' = [ren EXCEPT ![c].pc = "error"]
    /\ UNCHANGED <<now, tz, common, obslog, transfer, hist, ncalls, rows, op, input, attrs, output>>

\* The observation the clients mark, the renames they ask for and the rows
\* the tables hold at the start.
LockObsids == {"o1"}
LockRenames == {<<"M20AI001", "M20AI002">>, <<"M20AI001", "M20AI003">>}
LockRows ==
    {[id |-> 1, tbl |-> "ompmsb", projectid |-> "M20AI001"],
     [id |-> 2, tbl |-> "ompobs", projectid |-> "M20AI003"]}

InitLock ==
    /\ now = Epoch
    /\ tz = 0
    /\ common = InitCommon
    /\ obslog = <<>>
    /\ transfer = [f \in FileIds |-> "none"]
    /\ hist = [o \in Obsids |-> NoCalls]
    /\ ncalls = 0
    /\ rows = LockRows
    /\ writer = "none"
    /\ ren = [c \in Callers |-> NoRename]
    /\ held = [c \in LockClients |-> "none"]
    /\ attrs = NoAttrs
    /\ op = [c \in Markers \cup Scanners |-> NoOp]
    /\ input = NoInput
    /\ output = NoOutput

NextLock ==
    \/ \E m \in Markers, o \in LockObsids, set_null \in BOOLEAN : MarkBegin(m, o, set_null)
    \/ \E m \in Markers : MarkExecute(m)
    \/ \E m \in Markers : MarkEnd(m)
    \/ \E m \in Markers : MarkError(m)
    \/ \E s \in Scanners : ScanBegin(s)
    \/ \E s \in Scanners : ScanEnd(s)
    \/ \E s \in Scanners : ScanError(s)
    \/ \E c \in Callers, p \in LockRenames : RenameCheckBegin(c, p[1], p[2])
    \/ \E c \in Callers : RenameCount(c)
    \/ \E c \in Callers : RenameCheckEnd(c)
    \/ \E c \in Callers : RenameBegin(c)
    \/ \E c \in Callers : RenameUpdate(c)
    \/ \E c \in Callers : RenameEnd(c)
    \/ \E c \in Callers : RenameError(c)

SpecLock == InitLock /\ [][NextLock]_vars

----------------------------------------------------------------------------
(* Properties of the transaction scopes *)

\* The clients that have a read-write scope open.
Writers == {c \in LockClients : held[c] = "rw"}

\* C12: at most one client has a read-write scope open, and the lock is
\* that client's; every write of set_last_caom_mod (to jcmt.COMMON) and of
\* the second phase of rename_project (to the tables keyed by projectid) is
\* made by a step taken while its client, and no other, has a read-write
\* scope open, so that the writes are ordered by the scopes.
C12_AtMostOneWriter ==
    /\ Cardinality(Writers) <= 1
    /\ \A c \in Writers : writer = c

C12_WriteInsideScope ==
    (common' # common \/ rows' # rows) =>
        /\ Cardinality(Writers) = 1
        /\ held' = held
        /\ \A m \in Markers : common' # common => (m \in Writers <=> op'[m] # op[m])
        /\ \A c \in Callers : rows' # rows => (c \in Writers /\ ren'[c] # ren[c])

C12_SingleWriter == []C12_AtMostOneWriter /\ [][C12_WriteInsideScope]_vars

\* rename_project is in its second scope and has renamed a row, after a
\* set_last_caom_mod call wrote its mark, while another client has called
\* set_last_caom_mod and a third reads.
C12_Witness ==
    /\ \E c \in Callers :
          /\ held[c] = "rw"
          /\ \E x \in ren[c].before :
                x.projectid = ren[c].old /\ [x EXCEPT !.projectid = ren[c].new] \in rows
    /\ \E o \in LockObsids : common[o].last_caom_mod # NULL
    /\ \E m \in Markers : op[m].pc = "done"
    /\ \E s \in Scanners : held[s] = "ro"

\* C13: a client whose call has ended, by returning, by an error of the
\* store or by the error rename_project raises inside its first scope, has
\* no scope open and does not own the lock; and when no client has a
\* read-write scope open, a client not in a call can open one.
C13_ScopesReleased ==
    /\ \A c \in Callers :
          ren[c].pc \in Ended \cup {"checked"} => held[c] = "none" /\ writer # c
    /\ \A c \in Markers \cup Scanners :
          op[c].pc \in Ended => held[c] = "none" /\ writer # c
    /\ (Writers = {} /\ ncalls < MaxCalls) =>
          \A m \in Markers : op[m].pc \in Ended => ENABLED MarkBegin(m, "o1", FALSE)
    /\ Writers = {} =>
          \A c \in Callers : ren[c].pc = "checked" => ENABLED RenameBegin(c)

\* rename_project has raised its error inside the first scope, after a
\* set_last_caom_mod call and a find_obs_for_ingestion call ended with an
\* error of the store and another rename_project call had returned, and a
\* client has since opened a read-write scope.
C13_Witness ==
    /\ \E c \in Callers :
          /\ ren[c].pc = "failed"
          /\ \E x \in rows : x.projectid = "M20AI002"
    /\ \E m \in Markers : op[m].pc = "error"
    /\ \E s \in Scanners : op[s].pc = "error"
    /\ \E m \in Markers : held[m] = "rw"

----------------------------------------------------------------------------
(* create_group_project_query *)

\* Python values of the arguments: a keyword argument left out of the call,
\* None, a string, a list of strings.
PyOmitted == [type |-> "omitted", str |-> "", list |-> <<>>]
PyNone == [type |-> "none", str |-> "", list |-> <<>>]
PyStr(s) == [type |-> "str", str |-> s, list |-> <<>>]
PyList(l) == [type |-> "list", str |-> "", list |-> l]

\* The value a parameter takes: its default when the argument is left out.
Default(v, d) == IF v = PyOmitted THEN d ELSE v

\* The truth value of `if v:`.
Truthy(v) ==
    \/ v.type = "str" /\ v.str # ""
    \/ v.type = "list" /\ v.list # <<>>

\* An entry of wherequery: its text and, for the list of projects, the
\* values formatted into it.
Fragment(text, list) == [text |-> text, list |-> list]

\* The entries the function adds to wherequery and the keys it adds to args,
\* per criterion.
QueueFragment(queue) ==
    IF Truthy(queue) THEN <<Fragment(" q.country=%(queue)s ", <<>>)>> ELSE <<>>
SemesterFragment(semester) ==
    IF Truthy(semester) THEN <<Fragment(" p.semester=%(semester)s ", <<>>)>> ELSE <<>>
ProjectsFragment(projects) ==
    IF projects # PyNone /\ projects # PyList(<<>>)
    THEN <<Fragment(" p.projectid in ({}) ", projects.list)>> ELSE <<>>
PatternFragment(patternmatch) ==
    IF Truthy(patternmatch) THEN <<Fragment(" p.projectid LIKE %(pattern)s ", <<>>)>> ELSE <<>>
TelescopeFragment(telescope) ==
    IF Truthy(telescope) THEN <<Fragment(" p.telescope=%(telescope)s ", <<>>)>> ELSE <<>>

\* The dictionary args, from the values by key.
GroupArgs(values) == [k \in {k \in DOMAIN values : Truthy(values[k])} |-> values[k]]

\* The function with `if semester is not None:` for `if semester:`.
CreateGroupProjectQueryNotNone(semester, queue, projects, patternmatch, telescope) ==
    [done |-> TRUE,
     selectstatement |-> "SELECT p.projectid ",
     fromstatement |->
        <<"FROM omp.ompproj AS p ">> \o
        (IF Truthy(queue)
         THEN <<"JOIN omp.ompprojqueue AS q  ON p.projectid=q.projectid ">> ELSE <<>>),
     wherequery |->
        QueueFragment(queue)
        \o (IF semester # PyNone
            THEN <<Fragment(" p.semester=%(semester)s ", <<>>)>> ELSE <<>>)
        \o ProjectsFragment(projects) \o PatternFragment(patternmatch)
        \o TelescopeFragment(telescope),
     args |->
        [k \in {k \in {"queue", "semester", "pattern", "telescope"} :
                   IF k = "semester" THEN semester # PyNone
                   ELSE Truthy([queue |-> queue, pattern |-> patternmatch,
                                telescope |-> telescope][k])} |->
            [queue |-> queue, semester |-> semester, pattern |-> patternmatch,
             telescope |-> telescope][k]]]

\* The function with the telescope condition added whatever telescope is.
CreateGroupProjectQueryAlwaysTelescope(semester, queue, projects, patternmatch, telescope) ==
    [done |-> TRUE,
     selectstatement |-> "SELECT p.projectid ",
     fromstatement |->
        <<"FROM omp.ompproj AS p ">> \o
        (IF Truthy(queue)
         THEN <<"JOIN omp.ompprojqueue AS q  ON p.projectid=q.projectid ">> ELSE <<>>),
     wherequery |->
        QueueFragment(queue) \o SemesterFragment(semester)
        \o ProjectsFragment(projects) \o PatternFragment(patternmatch)
        \o <<Fragment(" p.telescope=%(telescope)s ", <<>>)>>,
     args |->
        [k \in {k \in {"queue", "semester", "pattern", "telescope"} :
                   k = "telescope" \/
                   Truthy([queue |-> queue, semester |-> semester,
                           pattern |-> patternmatch, telescope |-> telescope][k])} |->
            [queue |-> queue, semester |-> semester, pattern |-> patternmatch,
             telescope |-> telescope][k]]]

\* create_group_project_query, on the values its parameters take: the
\* select statement, the from statement (as the strings concatenated), the
\* list wherequery and the dictionary args.
CreateGroupProjectQuery(semester, queue, projects, patternmatch, telescope) ==
    [done |-> TRUE,
     selectstatement |-> "SELECT p.projectid ",
     fromstatement |->
        <<"FROM omp.ompproj AS p ">> \o
        (IF Truthy(queue)
         THEN <<"JOIN omp.ompprojqueue AS q  ON p.projectid=q.projectid ">> ELSE <<>>),
     wherequery |->
        QueueFragment(queue) \o SemesterFragment(semester)
        \o ProjectsFragment(projects) \o PatternFragment(patternmatch)
        \o TelescopeFragment(telescope),
     args |->
        GroupArgs([queue |-> queue, semester |-> semester, pattern |-> patternmatch,
                   telescope |-> telescope])]

\* A call: the parameters left out take their defaults.
CreateGroupProjectQueryCall ==
    /\ input.op = "create_group_project_query"
    /\ ~output.done
    /\ output' = CreateGroupProjectQuery(
                    Default(input.semester, PyNone), Default(input.queue, PyNone),
                    Default(input.projects, PyNone), Default(input.patternmatch, PyNone),
                    Default(input.telescope, PyStr("JCMT")))
    /\ UNCHANGED <<now, tz, common, obslog, transfer, hist, ncalls, rows, writer, ren,
                   held, op, input, attrs>>

\* The arguments of the calls.
SemesterArgs == {PyOmitted, PyNone, PyStr(""), PyStr("20A")}
QueueArgs == {PyOmitted, PyNone, PyStr(""), PyStr("PI")}
ProjectsArgs ==
    {PyOmitted, PyNone, PyList(<<>>), PyList(<<"M20AI001">>),
     PyList(<<"M20AI001", "M20AI002">>)}
PatternArgs == {PyOmitted, PyNone, PyStr(""), PyStr("M20A%")}
TelescopeArgs == {PyOmitted, PyNone, PyStr(""), PyStr("UKIRT")}

InitQuery ==
    /\ now = Epoch
    /\ tz = 0
    /\ common = InitCommon
    /\ obslog = <<>>
    /\ transfer = [f \in FileIds |-> "none"]
    /\ hist = [o \in Obsids |-> NoCalls]
    /\ ncalls = 0
    /\ rows = {}
    /\ writer = "none"
    /\ ren = [c \in Callers |-> NoRename]
    /\ held = [c \in LockClients |-> "none"]
    /\ attrs = NoAttrs
    /\ op = [c \in Markers \cup Scanners |-> NoOp]
    /\ input \in [op : {"create_group_project_query"}, semester : SemesterArgs,
                  queue : QueueArgs, projects : ProjectsArgs,
                  patternmatch : PatternArgs, telescope : TelescopeArgs]
    /\ output = NoOutput

NextQuery == CreateGroupProjectQueryCall

SpecQuery == InitQuery /\ [][NextQuery]_vars

----------------------------------------------------------------------------
(* Properties of create_group_project_query *)

Criteria == {"semester", "queue", "projects", "patternmatch", "telescope"}

\* The text of the entry of wherequery that is a criterion's.
CriterionText(k) ==
    [semester |-> " p.semester=%(semester)s ", queue |-> " q.country=%(queue)s ",
     projects |-> " p.projectid in ({}) ", patternmatch |-> " p.projectid LIKE %(pattern)s ",
     telescope |-> " p.telescope=%(telescope)s "][k]

\* The key of args that is a criterion's.
CriterionKey(k) ==
    [semester |-> "semester", queue |-> "queue", projects |-> "projects",
     patternmatch |-> "pattern", telescope |-> "telescope"][k]

\* The number of entries of wherequery that are a criterion's.
Fragments(k) ==
    Cardinality({i \in DOMAIN output.wherequery : output.wherequery[i].text = CriterionText(k)})

\* The caller passed the criterion, and not as None.
Supplied(k) == input[k] # PyOmitted /\ input[k] # PyNone

\* The parameter's value, with its default when left out, is neither None
\* nor empty.
Given(k) == Truthy(Default(input[k], IF k = "telescope" THEN PyStr("JCMT") ELSE PyNone))

\* C14 as stated: one entry of wherequery per criterion supplied and none
\* for a criterion that is absent, a key in args only for a criterion
\* supplied, and as many entries as criteria supplied.
C14_FragmentPerSupplied ==
    output.done =>
        /\ \A k \in Criteria : Fragments(k) = IF Supplied(k) THEN 1 ELSE 0
        /\ \A k \in Criteria : CriterionKey(k) \in DOMAIN output.args => Supplied(k)
        /\ Len(output.wherequery) = Cardinality({k \in Criteria : Supplied(k)})

\* C14, amended: the same of the criteria whose value, telescope taking its
\* default 'JCMT' when left out, is neither None nor empty ('' or []); the
\* key in args then holds that value, and the list of projects has no key.
C14_FragmentPerGiven ==
    output.done =>
        /\ \A k \in Criteria : Fragments(k) = IF Given(k) THEN 1 ELSE 0
        /\ \A k \in Criteria :
              CriterionKey(k) \in DOMAIN output.args <=> (Given(k) /\ k # "projects")
        /\ \A k \in Criteria \ {"projects"} :
              Given(k) => output.args[CriterionKey(k)] =
                              Default(input[k], IF k = "telescope" THEN PyStr("JCMT") ELSE PyNone)
        /\ Len(output.wherequery) = Cardinality({k \in Criteria : Given(k)})
        /\ DOMAIN output.args \subseteq {CriterionKey(k) : k \in Criteria}

\* A call with an empty semester, a list of projects and telescope left out
\* has returned.
C14_Witness ==
    /\ output.done
    /\ input.semester = PyStr("")
    /\ input.projects = PyList(<<"M20AI001", "M20AI002">>)
    /\ input.telescope = PyOmitted
    /\ input.queue = PyStr("PI")

\* The two calls of C15, with the other arguments left out, and with
\* telescope passed as None.
OnlySemester(tel) ==
    input = [op |-> "create_group_project_query", semester |-> PyStr("20A"),
             queue |-> PyOmitted, projects |-> PyOmitted, patternmatch |-> PyOmitted,
             telescope |-> tel]
NoCriteria(tel) ==
    input = [op |-> "create_group_project_query", semester |-> PyOmitted,
             queue |-> PyOmitted, projects |-> PyOmitted, patternmatch |-> PyOmitted,
             telescope |-> tel]

\* C15 as stated: with only semester="20A" passed, wherequery has one
\* entry, the one on semester; with nothing passed, wherequery and args are
\* empty.
C15_OnlySemesterOneFragment ==
    output.done =>
        /\ OnlySemester(PyOmitted) =>
              /\ Len(output.wherequery) = 1
              /\ output.wherequery[1].text = CriterionText("semester")
        /\ NoCriteria(PyOmitted) =>
              /\ output.wherequery = <<>>
              /\ DOMAIN output.args = {}

\* C15, amended: that is so when telescope is passed as None; with
\* telescope left out, the entry and the key of telescope='JCMT' come in
\* addition.
C15_OnlySemesterTelescopeNone ==
    output.done =>
        /\ OnlySemester(PyNone) =>
              /\ Len(output.wherequery) = 1
              /\ output.wherequery[1].text = CriterionText("semester")
              /\ DOMAIN output.args = {"semester"}
        /\ NoCriteria(PyNone) =>
              /\ output.wherequery = <<>>
              /\ DOMAIN output.args = {}
        /\ OnlySemester(PyOmitted) =>
              /\ Len(output.wherequery) = 2
              /\ output.wherequery[1].text = CriterionText("semester")
              /\ output.wherequery[2].text = CriterionText("telescope")
              /\ output.args = [semester |-> PyStr("20A"), telescope |-> PyStr("JCMT")]
        /\ NoCriteria(PyOmitted) =>
              /\ Len(output.wherequery) = 1
              /\ output.wherequery[1].text = CriterionText("telescope")
              /\ output.args = [telescope |-> PyStr("JCMT")]

\* The call with only semester="20A" and telescope=None has returned.
C15_Witness == output.done /\ OnlySemester(PyNone)

----------------------------------------------------------------------------
(* get_summary_obs_info_group and get_summary_obs_info                     *)
(*                                                                         *)
(* Timestamps are in seconds; an opacity is a whole number of 1/10000, and *)
(* the mean (a + b)/2.0 is kept as the sum a + b, twice the mean, which is *)
(* compared with twice the number of the statement.                        *)

\* HOUR(t) and MINUTE(t).
Hour(t) == (t % 86400) \div 3600
Minute(t) == (t % 3600) \div 60

\* TIMESTAMPDIFF(SECOND, a, b).
TimestampDiffSecond(a, b) == IF a = NULL \/ b = NULL THEN NULL ELSE b - a

\* ABS(TIMESTAMPDIFF(MINUTE, a, b)): whole minutes, the rest dropped.
AbsTimestampDiffMinute(a, b) ==
    IF a = NULL \/ b = NULL THEN NULL
    ELSE IF b >= a THEN (b - a) \div 60 ELSE (a - b) \div 60

\* (a + b)/2.0, doubled.
Mean2(a, b) == IF a = NULL \/ b = NULL THEN NULL ELSE a + b

\* x BETWEEN lo AND hi, x <= hi and x < hi for a doubled mean x.
Between2(x, lo, hi) == IF x = NULL THEN "U" ELSE SqlBool(2 * lo <= x /\ x <= 2 * hi)
Le2(x, hi) == IF x = NULL THEN "U" ELSE SqlBool(x <= 2 * hi)
Lt2(x, hi) == IF x = NULL THEN "U" ELSE SqlBool(x < 2 * hi)

\* CASE WHEN HOUR(date_obs)+MINUTE(date_obs)/60.0 between 3.5 and 19.5
\*      THEN 'night' ELSE 'day' END, in minutes.
DayNight(date_obs) ==
    IF date_obs = NULL THEN "day"
    ELSE LET m == Hour(date_obs) * 60 + Minute(date_obs)
         IN  IF 210 <= m /\ m <= 1170 THEN "night" ELSE "day"

\* The inner CASE of the band with `< 0.08` for `<= 0.08`.
BandCaseGroupWvmStrict(x) ==
    IF Between2(x, 5, 500) = "T" THEN "1"
    ELSE IF Lt2(x, 800) = "T" THEN "2"
    ELSE IF Le2(x, 1200) = "T" THEN "3"
    ELSE IF Le2(x, 2000) = "T" THEN "4"
    ELSE IF Lt2(x, 500000) = "T" THEN "5"
    ELSE "unknown"

\* get_summary_obs_info_group, csotau false: the inner CASE of the band, on
\* the mean of wvmtaust and wvmtauen.
BandCaseGroupWvm(x) ==
    IF Between2(x, 5, 500) = "T" THEN "1"
    ELSE IF Le2(x, 800) = "T" THEN "2"
    ELSE IF Le2(x, 1200) = "T" THEN "3"
    ELSE IF Le2(x, 2000) = "T" THEN "4"
    ELSE IF Lt2(x, 500000) = "T" THEN "5"
    ELSE "unknown"

\* The outer CASE: the band is trusted when the two samples of the water
\* vapour monitor are less than 10 minutes from the start and the end.
BandGroupWvm(row) ==
    IF SqlAnd(SqlLt(AbsTimestampDiffMinute(row.wvmdatst, row.date_obs), 10),
              SqlLt(AbsTimestampDiffMinute(row.wvmdaten, row.date_end), 10)) = "T"
    THEN BandCaseGroupWvm(Mean2(row.wvmtaust, row.wvmtauen))
    ELSE "unknown"

\* get_summary_obs_info_group, csotau true: on the mean of tau225st and
\* tau225en.
BandCaseGroupCso(x) ==
    IF Between2(x, 50, 500) = "T" THEN "1"
    ELSE IF Between2(x, 500, 800) = "T" THEN "2"
    ELSE IF Between2(x, 800, 1200) = "T" THEN "3"
    ELSE IF Between2(x, 1200, 2000) = "T" THEN "4"
    ELSE IF Between2(x, 2000, 1000000) = "T" THEN "5"
    ELSE "unknown"

\* get_summary_obs_info, csotau false.
BandCaseWvm(x) ==
    IF Between2(x, 50, 500) = "T" THEN "1"
    ELSE IF Between2(x, 500, 800) = "T" THEN "2"
    ELSE IF Between2(x, 800, 1200) = "T" THEN "3"
    ELSE IF Between2(x, 1200, 2000) = "T" THEN "4"
    ELSE IF Between2(x, 2000, 1000000) = "T" THEN "5"
    ELSE "unknown"

\* get_summary_obs_info, csotau true.
BandCaseCso(x) ==
    IF Between2(x, 50, 500) = "T" THEN "1"
    ELSE IF Between2(x, 500, 800) = "T" THEN "2"
    ELSE IF Between2(x, 800, 1200) = "T" THEN "3"
    ELSE IF Between2(x, 1200, 2000) = "T" THEN "4"
    ELSE IF Between2(x, 2000, 1000000) = "T" THEN "5"
    ELSE "unknown"

\* The band of a row of jcmt.COMMON in a report: fn is the function called.
Band(fn, csotau, row) ==
    IF fn = "get_summary_obs_info_group"
    THEN IF csotau THEN BandCaseGroupCso(Mean2(row.tau225st, row.tau225en))
         ELSE BandGroupWvm(row)
    ELSE IF csotau THEN BandCaseCso(Mean2(row.tau225st, row.tau225en))
         ELSE BandCaseWvm(Mean2(row.wvmtaust, row.wvmtauen))

Max(S) == CHOOSE m \in S : \A x \in S : x <= m

\* The join restricted to the rows of omp.ompobslog that have obsactive set.
JoinedCommentActive(log, obsid) ==
    LET ids == {i \in DOMAIN log : log[i].obsid = obsid /\ log[i].obsactive = 1}
    IN  IF ids = {} THEN NULL ELSE log[Max(ids)].commentstatus

\* LEFT OUTER JOIN omp.ompobslog AS o ON o.obslogid = (SELECT MAX(obslogid)
\* FROM omp.ompobslog o2 WHERE o2.obsid = c.obsid): o.commentstatus, NULL
\* when no row is joined.  obslogid is the position in the log.
JoinedComment(log, obsid) ==
    LET ids == {i \in DOMAIN log : log[i].obsid = obsid}
    IN  IF ids = {} THEN NULL ELSE log[Max(ids)].commentstatus

\* CASE WHEN o.commentstatus is NULL THEN 0 ELSE o.commentstatus END
CommentStatus(log, obsid) ==
    IF JoinedComment(log, obsid) = NULL THEN 0 ELSE JoinedComment(log, obsid)

\* The instrument column: get_summary_obs_info_group without csotau names
\* the observations of the recipe REDUCE_POL_SCAN 'POL-2'.
Instrume(fn, csotau, row) ==
    IF fn = "get_summary_obs_info_group" /\ ~csotau /\ row.recipe = "REDUCE_POL_SCAN"
    THEN "POL-2" ELSE row.instrume

\* The row of the inner SELECT for a row of jcmt.COMMON.
InnerRow(in, obsid) ==
    LET row == in.common[obsid]
    IN  [project |-> row.project,
         instrume |-> Instrume(in.op, in.csotau, row),
         duration |-> TimestampDiffSecond(row.date_obs, row.date_end),
         commentstatus |-> CommentStatus(in.obslog, obsid),
         band |-> Band(in.op, in.csotau, row),
         daynight |-> DayNight(row.date_obs)]

\* omp.ompproj joined with omp.ompprojqueue, and LIKE for the patterns used.
ProjTable ==
    [p \in Projects |->
        [semester |-> IF p = "M20AI003" THEN "20B" ELSE "20A", telescope |-> "JCMT",
         country |-> "PI"]]

Like(s, pattern) == pattern = s \/ (pattern = "M20A%" /\ s \in Projects)

\* The project select of get_summary_obs_info_group executed: the projects
\* of omp.ompproj for which every entry of wherequery holds.
FragmentHolds(f, args, p) ==
    IF f.text = " p.semester=%(semester)s " THEN ProjTable[p].semester = args["semester"].str
    ELSE IF f.text = " p.telescope=%(telescope)s " THEN ProjTable[p].telescope = args["telescope"].str
    ELSE IF f.text = " p.projectid in ({}) " THEN \E i \in DOMAIN f.list : f.list[i] = p
    ELSE IF f.text = " p.projectid LIKE %(pattern)s " THEN Like(p, args["pattern"].str)
    ELSE IF f.text = " q.country=%(queue)s " THEN ProjTable[p].country = args["queue"].str
    ELSE FALSE

ResolveGroup(q) ==
    {p \in Projects : \A i \in DOMAIN q.wherequery : FragmentHolds(q.wherequery[i], q.args, p)}

\* The WHERE of the inner SELECT of get_summary_obs_info_group.
GroupWhere(in, obsid) ==
    LET row == in.common[obsid]
        grouped == in.semester # PyNone \/ in.queue # PyNone
                   \/ in.projects # PyNone \/ in.patternmatch # PyNone
    IN  /\ grouped =>
              row.project \in ResolveGroup(CreateGroupProjectQuery(
                  in.semester, in.queue, in.projects, in.patternmatch, PyStr("JCMT")))
        /\ in.utdatestart \notin {NULL, 0} => SqlGe(row.utdate, in.utdatestart) = "T"
        /\ in.utdateend \notin {NULL, 0} => SqlLe(row.utdate, in.utdateend) = "T"

\* The WHERE of the inner SELECT of get_summary_obs_info, for a
\* projectpattern that is not empty.
SingleWhere(in, obsid) ==
    LET row == in.common[obsid]
    IN  /\ IF in.like THEN Like(row.project, in.projectpattern)
           ELSE row.project = in.projectpattern
        /\ in.utdatestart \notin {NULL, 0} => SqlGe(row.utdate, in.utdatestart) = "T"
        /\ in.utdateend \notin {NULL, 0} => SqlLe(row.utdate, in.utdateend) = "T"

\* The observations the inner SELECT returns a row for.
InnerObs(in) ==
    {o \in DOMAIN in.common :
        IF in.op = "get_summary_obs_info_group" THEN GroupWhere(in, o)
        ELSE SingleWhere(in, o)}

\* The grouping without t.daynight.
GroupKeyNoDayNight(r) == <<r.project, r.instrume, r.band, r.commentstatus, "day">>

\* GROUP BY t.project, t.instrume, t.band, t.commentstatus, t.daynight
GroupKey(r) == <<r.project, r.instrume, r.band, r.commentstatus, r.daynight>>

\* sum(t.duration) over the rows of a set of observations: NULLs are
\* skipped, NULL when nothing is left.
RECURSIVE SumDuration(_, _)
SumDuration(in, S) ==
    IF S = {} THEN NULL
    ELSE LET o == CHOOSE x \in S : TRUE
             d == InnerRow(in, o).duration
             rest == SumDuration(in, S \ {o})
         IN  IF d = NULL THEN rest ELSE IF rest = NULL THEN d ELSE d + rest

\* The row of the outer SELECT for a group: the fields of projobsinfo.
OuterRow(in, k) ==
    LET members == {o \in InnerObs(in) : GroupKey(InnerRow(in, o)) = k}
    IN  [project |-> k[1], instrument |-> k[2], band |-> k[3], status |-> k[4],
         number |-> Cardinality(members), totaltime |-> SumDuration(in, members),
         daynight |-> k[5]]

OuterRows(in) == {OuterRow(in, GroupKey(InnerRow(in, o))) : o \in InnerObs(in)}

\* The order of the strings the columns hold.
Collation ==
    <<"1", "2", "3", "4", "5", "HARP", "M20AI001", "M20AI002", "M20AI003",
      "POL-2", "SCUBA-2", "unknown">>
Rank(s) == CHOOSE i \in DOMAIN Collation : Collation[i] = s

\* ORDER BY t.project, t.instrume, t.band ASC, t.commentstatus ASC: row a
\* sorts before row b.
OrderedBefore(a, b) ==
    \/ Rank(a.project) < Rank(b.project)
    \/ /\ a.project = b.project
       /\ \/ Rank(a.instrument) < Rank(b.instrument)
          \/ /\ a.instrument = b.instrument
             /\ \/ Rank(a.band) < Rank(b.band)
                \/ a.band = b.band /\ a.status < b.status

\* The results a report may return: the rows of the groups in an order the
\* ORDER BY allows (rows equal in its four columns come in any order).
Results(in) ==
    LET R == OuterRows(in)
        n == Cardinality(R)
    IN  {s \in [1..n -> R] :
            /\ \A i \in 1..n, j \in 1..n : i # j => s[i] # s[j]
            /\ \A i \in 1..n, j \in 1..n : i < j => ~OrderedBefore(s[j], s[i])}

GetSummaryObsInfoGroup ==
    /\ input.op = "get_summary_obs_info_group"
    /\ ~output.done
    /\ \E s \in Results(input) : output' = [done |-> TRUE, results |-> s]
    /\ UNCHANGED <<now, tz, common, obslog, transfer, hist, ncalls, rows, writer, ren,
                   held, op, input, attrs>>

GetSummaryObsInfo ==
    /\ input.op = "get_summary_obs_info"
    /\ ~output.done
    /\ \E s \in Results(input) : output' = [done |-> TRUE, results |-> s]
    /\ UNCHANGED <<now, tz, common, obslog, transfer, hist, ncalls, rows, writer, ren,
                   held, op, input, attrs>>

\* The reports over the tables they read.  A row of jcmt.COMMON: an
\* observation of one minute, at a second of the day, with both opacities of
\* both sources at one value, and the samples of the water vapour monitor
\* taken `late` seconds after the start and the end.
ReportRow(project, instrume, recipe, utdate, second, length, tau, late) ==
    [project |-> project, instrume |-> instrume, recipe |-> recipe, utdate |-> utdate,
     date_obs |-> 86400 + second, date_end |-> 86400 + second + length,
     wvmtaust |-> tau, wvmtauen |-> tau, tau225st |-> tau, tau225en |-> tau,
     wvmdatst |-> 86400 + second + late, wvmdaten |-> 86400 + second + length + late]

\* A call of a report, with the arguments of the other report at None.
ReportInput(fn, csotau, com, log, utdatestart, projects, projectpattern, like) ==
    [op |-> fn, csotau |-> csotau, common |-> com, obslog |-> log,
     utdatestart |-> utdatestart, utdateend |-> NULL,
     semester |-> PyNone, queue |-> PyNone, projects |-> projects,
     patternmatch |-> PyNone, projectpattern |-> projectpattern, like |-> like]

ReportFunctions == {"get_summary_obs_info_group", "get_summary_obs_info"}

\* The seconds of the day of the observations: around 03:30 and 19:30, and
\* far from both.
DaySeconds ==
    {h * 3600 + m * 60 + s : h \in {0, 3, 4, 12, 19, 20, 23}, m \in {0, 29, 30, 31, 59},
                             s \in {0, 59}}

\* The opacities, in 1/10000: at, just below and just above the numbers of
\* the statements, and NULL.
TauValues ==
    {NULL, 0, 1, 4, 5, 10, 49, 50, 51, 300, 499, 500, 501, 799, 800, 801, 1199, 1200,
     1201, 1999, 2000, 2001, 400000, 499999, 500000, 600000, 1000000, 1000001}

\* The seconds by which the samples of the water vapour monitor are late.
LateValues == {0, 599, 600}

\* The logs of comments: rows of omp.ompobslog in the order of obslogid.
LogRow(obsid, commentstatus, obsactive) ==
    [obsid |-> obsid, commentstatus |-> commentstatus, obsactive |-> obsactive]

ReportLogs ==
    {<<>>,
     <<LogRow("o1", 1, 1)>>,
     <<LogRow("o1", 1, 0), LogRow("o2", 3, 1), LogRow("o1", 2, 1)>>,
     <<LogRow("o1", 1, 1), LogRow("o1", 2, 0)>>,
     <<LogRow("o1", 2, 0)>>,
     <<LogRow("o2", 3, 1), LogRow("o1", NULL, 1)>>}

\* One observation at every second of DaySeconds.
InputsDayNight ==
    {ReportInput(fn, csotau,
                 [o \in {"o1"} |->
                     ReportRow("M20AI001", "SCUBA-2", "REDUCE_SCAN", 20200101, t, 60, 300, 0)],
                 <<>>, NULL, PyNone, "M20AI001", FALSE) :
        fn \in ReportFunctions, csotau \in BOOLEAN, t \in DaySeconds}

\* One observation at every opacity of TauValues.
InputsBand ==
    {ReportInput(fn, csotau,
                 [o \in {"o1"} |->
                     ReportRow("M20AI001", "SCUBA-2", "REDUCE_SCAN", 20200101, 43200, 60,
                               tau, late)],
                 <<>>, NULL, PyNone, "M20AI001", FALSE) :
        fn \in ReportFunctions, csotau \in BOOLEAN, tau \in TauValues, late \in LateValues}

\* Three observations, two of them of any project, instrument, part of the
\* day and opacity, with the logs of comments and the filters.
RowVariants(recipe, utdate, length) ==
    {ReportRow(p, i, recipe, utdate, t, length, tau, 0) :
        p \in {"M20AI001", "M20AI002"}, i \in {"HARP", "SCUBA-2"},
        t \in {7200, 43200}, tau \in {300, 1000}}

InputsSummary ==
    {ReportInput(f[1], csotau, [o \in {"o1", "o2", "o3"} |->
                                   IF o = "o1" THEN r1 ELSE IF o = "o2" THEN r2 ELSE r3],
                 log, start, f[2], f[3], f[4]) :
        f \in {<<"get_summary_obs_info_group", PyNone, "", FALSE>>,
               <<"get_summary_obs_info_group", PyList(<<"M20AI001">>), "", FALSE>>,
               <<"get_summary_obs_info", PyNone, "M20AI001", FALSE>>,
               <<"get_summary_obs_info", PyNone, "M20A%", TRUE>>},
        csotau \in BOOLEAN,
        r1 \in RowVariants("REDUCE_SCAN", 20200101, 60),
        r2 \in RowVariants("REDUCE_SCAN", 20200102, 120),
        r3 \in {ReportRow("M20AI001", "SCUBA-2", "REDUCE_POL_SCAN", 20200102, t, 300, 300, 0) :
                   t \in {7200, 43200}},
        log \in ReportLogs,
        start \in {NULL, 20200102}}

InitReport ==
    /\ now = Epoch
    /\ tz = 0
    /\ common = InitCommon
    /\ obslog = <<>>
    /\ transfer = [f \in FileIds |-> "none"]
    /\ hist = [o \in Obsids |-> NoCalls]
    /\ ncalls = 0
    /\ rows = {}
    /\ writer = "none"
    /\ ren = [c \in Callers |-> NoRename]
    /\ held = [c \in LockClients |-> "none"]
    /\ attrs = NoAttrs
    /\ op = [c \in Markers \cup Scanners |-> NoOp]
    /\ input \in InputsDayNight \cup InputsBand \cup InputsSummary
    /\ output = NoOutput

NextReport ==
    \/ GetSummaryObsInfoGroup
    \/ GetSummaryObsInfo

SpecReport == InitReport /\ [][NextReport]_vars

----------------------------------------------------------------------------
(* Properties of the summary reports *)

\* A report on one observation has returned: the observation, and whether
\* the samples of the water vapour monitor are less than 10 minutes from
\* its start and its end.
OneObservation == output.done /\ DOMAIN input.common = {"o1"}
TheRow == input.common["o1"]
SamplesNear ==
    /\ AbsTimestampDiffMinute(TheRow.wvmdatst, TheRow.date_obs) < 10
    /\ AbsTimestampDiffMinute(TheRow.wvmdaten, TheRow.date_end) < 10

\* The seconds of the day of 03:30:00, 03:29:59 and 19:30:00.
At033000 == 3 * 3600 + 30 * 60
At032959 == 3 * 3600 + 29 * 60 + 59
At193000 == 19 * 3600 + 30 * 60

\* C16: the label of a report is 'night' exactly when hour + minute/60 (in
\* minutes: 60 * hour + minute) is in [3.5, 19.5) (in [210, 1170)); so
\* 'night' at 03:30:00 and 'day' at 03:29:59 and at 19:30:00.
C16_NightHalfOpen ==
    OneObservation =>
        LET t == TheRow.date_obs % 86400
            m == Hour(t) * 60 + Minute(t)
            label == output.results[1].daynight
        IN  /\ Len(output.results) = 1
            /\ label = "night" <=> (210 <= m /\ m < 1170)
            /\ label \in {"night", "day"}
            /\ t = At033000 => label = "night"
            /\ t = At032959 => label = "day"
            /\ t = At193000 => label = "day"

\* The four reports: the function and csotau.
ReportModes == ReportFunctions \X BOOLEAN

\* C17: for every mean opacity, with the samples of the water vapour
\* monitor near, the band a report returns is the band every report mode
\* gives that mean.
C17_SameBandEveryMode ==
    (OneObservation /\ SamplesNear) =>
        /\ Len(output.results) = 1
        /\ \A mode \in ReportModes :
              Band(mode[1], mode[2], TheRow) = output.results[1].band

\* The means that are one of 0.05, 0.08, 0.12 and 0.2.
BoundaryTaus == {500, 800, 1200, 2000}
AtBoundary ==
    /\ Mean2(TheRow.wvmtaust, TheRow.wvmtauen) \in {2 * b : b \in BoundaryTaus}
    /\ Mean2(TheRow.tau225st, TheRow.tau225en) = Mean2(TheRow.wvmtaust, TheRow.wvmtauen)

CountedIn(o, g) ==
    LET r == InnerRow(input, o)
    IN  /\ g.project = r.project
        /\ g.instrument = r.instrume
        /\ g.band = r.band
        /\ g.daynight = r.daynight

\* C19: every observation of a report is counted in a row whose status is
\* the commentstatus of the observation's comment with the greatest
\* obslogid among those with obsactive set, and 0 when it has none.
C19_StatusOfLastActiveComment ==
    output.done =>
        \A o \in InnerObs(input) :
            \E i \in DOMAIN output.results :
                /\ CountedIn(o, output.results[i])
                /\ output.results[i].status =
                      IF JoinedCommentActive(input.obslog, o) = NULL THEN 0
                      ELSE JoinedCommentActive(input.obslog, o)

\* The seconds from date_obs to date_end of the observations of a set, added.
RECURSIVE TotalSeconds(_)
TotalSeconds(S) ==
    IF S = {} THEN 0
    ELSE LET o == CHOOSE x \in S : TRUE
         IN  (input.common[o].date_end - input.common[o].date_obs) + TotalSeconds(S \ {o})

\* Row a of the results may come before row b: it is not after it by
\* project, then instrument, then band, then comment status.
NotAfter(a, b) ==
    LET ka == <<Rank(a.project), Rank(a.instrument), Rank(a.band), a.status>>
        kb == <<Rank(b.project), Rank(b.instrument), Rank(b.band), b.status>>
    IN  \/ ka = kb
        \/ \E n \in 1..4 : ka[n] < kb[n] /\ \A l \in 1..(n - 1) : ka[l] = kb[l]

\* C20: every observation the inner stage selects is counted in exactly one
\* row of the results, the row of its project, instrument, band, comment
\* status and day/night label; the number of a row is the number of its
\* observations and its total time the sum of their durations; no two rows
\* are of the same group; and the rows are in the order of project, then
\* instrument, then band, then comment status.
C20_OuterStagePartitions ==
    output.done =>
        LET res == output.results
            Members(g) == {o \in InnerObs(input) :
                              CountedIn(o, g) /\ g.status = InnerRow(input, o).commentstatus}
        IN  /\ \A o \in InnerObs(input) :
                  Cardinality({i \in DOMAIN res : o \in Members(res[i])}) = 1
            /\ \A i \in DOMAIN res :
                  /\ res[i].number = Cardinality(Members(res[i]))
                  /\ res[i].number >= 1
                  /\ res[i].totaltime = TotalSeconds(Members(res[i]))
            /\ \A i \in DOMAIN res, j \in DOMAIN res : i < j => NotAfter(res[i], res[j])

\* A report has returned a row of two observations and a row that differs
\* from it in the day/night label only.
C20_Witness ==
    /\ output.done
    /\ \E i \in DOMAIN output.results, j \in DOMAIN output.results :
          /\ output.results[i].number = 2
          /\ output.results[i].totaltime = 360
          /\ output.results[j].daynight # output.results[i].daynight
          /\ output.results[j].project = output.results[i].project
          /\ output.results[j].instrument = output.results[i].instrument
          /\ output.results[j].band = output.results[i].band
          /\ output.results[j].status = output.results[i].status

----------------------------------------------------------------------------
(* The lookups of one row: get_obsid_common, get_obsid_status and          *)
(* get_project_info                                                        *)

\* At most this many rows are in a table a lookup reads.
MaxLookupRows == 2

\* The sequences of at most MaxLookupRows elements of a set.
SeqUpTo(S) == UNION {[1..n -> S] : n \in 0..MaxLookupRows}

\* What a call does: it returns None, it returns the values of `value`
\* (after the warning `warned`, if any, is logged), or it raises an OMPDBError.
ReturnNone == [done |-> TRUE, kind |-> "none", value |-> <<>>, warned |-> ""]
Return(v, warned) == [done |-> TRUE, kind |-> "value", value |-> v, warned |-> warned]
OMPDBError(message) == [done |-> TRUE, kind |-> "error", value |-> <<message>>, warned |-> ""]

\* SELECT * FROM jcmt.COMMON WHERE obsid=<obsid>: the positions of the rows.
CommonRowsOf(in) == {i \in DOMAIN in.common : in.common[i].obsid = in.obsid}

\* get_obsid_common with the test of the number of rows left out.
GetObsidCommonNoCount(in) ==
    LET found == CommonRowsOf(in)
    IN  IF found = {} THEN {ReturnNone}
        ELSE {Return(<<in.common[i]>>, "") : i \in found}

\* get_obsid_common; the order of the rows fetched is the store's.
GetObsidCommon(in) ==
    LET found == CommonRowsOf(in)
    IN  IF found = {} THEN {ReturnNone}
        ELSE IF Cardinality(found) > 1
        THEN {OMPDBError("multiple COMMON results for one obsid")}
        ELSE {Return(<<in.common[i]>>, "") : i \in found}

\* SELECT ... FROM omp.ompobslog WHERE obslogid = (SELECT MAX(obslogid)
\* FROM omp.ompobslog WHERE obsid=<obsid> AND obsactive=1)
StatusRowsOf(in) ==
    LET last == SqlMax({in.obslog[i].obslogid :
                           i \in {j \in DOMAIN in.obslog :
                                     /\ in.obslog[j].obsid = in.obsid
                                     /\ in.obslog[j].obsactive = 1}})
    IN  {i \in DOMAIN in.obslog : last # NULL /\ in.obslog[i].obslogid = last}

\* get_obsid_status: the commentstatus alone, or the row when comment=True.
GetObsidStatus(in) ==
    LET found == StatusRowsOf(in)
    IN  IF found = {} THEN {ReturnNone}
        ELSE IF Cardinality(found) > 1
        THEN {OMPDBError("multiple status results for one obsid")}
        ELSE {Return(IF ~in.comment THEN <<in.obslog[i].commentstatus>>
                     ELSE <<in.obslog[i]>>, "") : i \in found}

\* SELECT ... FROM omp.ompproj as p join omp.ompprojqueue as q
\* ON p.projectid=q.projectid WHERE p.projectid=<projectcode>: the pairs of
\* positions of the rows joined.
ProjRowsOf(in) ==
    {pq \in (DOMAIN in.ompproj) \X (DOMAIN in.ompprojqueue) :
        /\ in.ompproj[pq[1]].projectid = in.ompprojqueue[pq[2]].projectid
        /\ in.ompproj[pq[1]].projectid = in.projectcode}

\* The columns of the row the join gives.
ProjValues(in, pq) ==
    [projectid |-> in.ompproj[pq[1]].projectid, title |-> in.ompproj[pq[1]].title,
     country |-> in.ompprojqueue[pq[2]].country]

\* get_project_info, without the lists of the project's users: the first
\* row fetched is returned, and which row is first is the store's choice.
GetProjectInfo(in) ==
    LET found == ProjRowsOf(in)
        warned == IF Cardinality(found) > 1
                  THEN "Project found multiple times. Only first returned" ELSE ""
    IN  IF Cardinality(found) = 0 THEN {OMPDBError("No project found")}
        ELSE {Return(<<ProjValues(in, pq)>>, warned) : pq \in found}

GetObsidCommonCall ==
    /\ input.op = "get_obsid_common"
    /\ ~output.done
    /\ output' \in GetObsidCommon(input)
    /\ UNCHANGED <<now, tz, common, obslog, transfer, hist, ncalls, rows, writer, ren,
                   held, op, input, attrs>>

GetObsidStatusCall ==
    /\ input.op = "get_obsid_status"
    /\ ~output.done
    /\ output' \in GetObsidStatus(input)
    /\ UNCHANGED <<now, tz, common, obslog, transfer, hist, ncalls, rows, writer, ren,
                   held, op, input, attrs>>

GetProjectInfoCall ==
    /\ input.op = "get_project_info"
    /\ ~output.done
    /\ output' \in GetProjectInfo(input)
    /\ UNCHANGED <<now, tz, common, obslog, transfer, hist, ncalls, rows, writer, ren,
                   held, op, input, attrs>>

\* The tables the lookups read.  Nothing of the model keeps a key from
\* occurring twice: the rows are whatever the store holds.
LookupCommonRows == [obsid : Obsids, utdate : {20200101, 20200102}]
LookupLogRows == [obslogid : 1..2, obsid : Obsids, obsactive : {0, 1}, commentstatus : {0, 1}]
LookupProjRows == [projectid : {"M20AI001", "M20AI002"}, title : {"a", "b"}]
LookupQueueRows == [projectid : {"M20AI001", "M20AI002"}, country : {"CA", "UK"}]

InputsLookup ==
    {[op |-> "get_obsid_common", obsid |-> "o1", common |-> t] :
        t \in SeqUpTo(LookupCommonRows)}
    \cup {[op |-> "get_obsid_status", obsid |-> "o1", comment |-> c, obslog |-> t] :
             c \in BOOLEAN, t \in SeqUpTo(LookupLogRows)}
    \cup {[op |-> "get_project_info", projectcode |-> "M20AI001", ompproj |-> p,
           ompprojqueue |-> q] :
             p \in SeqUpTo(LookupProjRows), q \in SeqUpTo(LookupQueueRows)}

InitLookup ==
    /\ now = Epoch
    /\ tz = 0
    /\ common = InitCommon
    /\ obslog = <<>>
    /\ transfer = [f \in FileIds |-> "none"]
    /\ hist = [o \in Obsids |-> NoCalls]
    /\ ncalls = 0
    /\ rows = {}
    /\ writer = "none"
    /\ ren = [c \in Callers |-> NoRename]
    /\ held = [c \in LockClients |-> "none"]
    /\ attrs = NoAttrs
    /\ op = [c \in Markers \cup Scanners |-> NoOp]
    /\ input \in InputsLookup
    /\ output = NoOutput

NextLookup ==
    \/ GetObsidCommonCall
    \/ GetObsidStatusCall
    \/ GetProjectInfoCall

SpecLookup == InitLookup /\ [][NextLookup]_vars

----------------------------------------------------------------------------
(* Properties of the lookups of one row *)

\* The number of rows the query of the call matched.
Matched ==
    IF input.op = "get_obsid_common" THEN Cardinality(CommonRowsOf(input))
    ELSE IF input.op = "get_obsid_status" THEN Cardinality(StatusRowsOf(input))
    ELSE Cardinality(ProjRowsOf(input))

\* C21 as stated: each of get_obsid_status, get_obsid_common and
\* get_project_info raises an error whenever its query matched more than one
\* row, and returns none of the rows.
C21_MultipleRowsFail ==
    (output.done /\ Matched > 1) => output.kind = "error"

\* C21: get_obsid_status and get_obsid_common raise an error whenever their
\* query matched more than one row and return none of the rows;
\* get_project_info then logs a warning and returns the first row fetched.
C21_MultipleRowsFailOrWarn ==
    (output.done /\ Matched > 1) =>
        IF input.op = "get_project_info"
        THEN /\ output.kind = "value"
             /\ output.warned # ""
             /\ \E pq \in ProjRowsOf(input) : output.value = <<ProjValues(input, pq)>>
        ELSE output.kind = "error"

\* Each lookup has matched two rows: the lookup of the status has raised its
\* error, or the lookup of a project has warned and returned a row.
C21_Witness ==
    /\ output.done
    /\ Matched = 2
    /\ \/ input.op = "get_obsid_status" /\ output.kind = "error"
       \/ input.op = "get_project_info" /\ output.kind = "value" /\ output.warned # ""

----------------------------------------------------------------------------
(* Further properties of the eligibility scan *)

\* C22: an observation passes the age criterion of a scan exactly when the
\* time of the evaluation minus date_obs is at least min_age_hours, for every
\* elapsed time and every minimum, whole hours or not (the minimum is given
\* in ticks, TicksPerHour to the hour); with min_age_hours=None there is no
\* age criterion.
C22_AgeIffElapsed ==
    \A o \in Obsids, ma \in MinAgeArgs :
        LET row == common[o]
        IN  /\ ma = NULL => AgeCondition(row, ma) = <<>>
            /\ ma # NULL =>
                  (AgeCondition(row, ma) = <<"T">>
                   <=> SqlUtcTimestamp - row.date_obs >= ma)

\* C23: with no_status_check=True a scan returns only observations whose
\* last_caom_mod is NULL.
C23_NoStatusCheckOnlyNull ==
    \A o \in Obsids :
        \A us \in StartArgs, ue \in EndArgs, ntc \in BOOLEAN, ign \in IgnoreArgs,
           ma \in MinAgeArgs :
            Selected(o, us, ue, TRUE, ntc, ign, ma) => common[o].last_caom_mod = NULL

----------------------------------------------------------------------------
(* The record shapes of get_obsid_common, get_observations and             *)
(* get_fault_summary_dates                                                 *)

\* The names that are keywords of the language, among those of the columns.
Keywords == {"class", "from"}

\* The columns a query of each family describes (c.description).
Description(f) ==
    IF f = "CommonInfo" THEN <<"obsid", "utdate">>
    ELSE IF f = "FullObservationInfo" THEN <<"obsid", "utdate", "commentstatus">>
    ELSE <<"faultid", "class">>

\* '{0}_'.format(x[0]) if iskeyword(x[0]) else x[0]
FieldName(x) == IF x \in Keywords THEN <<x, "_">> ELSE <<x>>

\* namedtuple(<family>, [...]): a new class on every call, told from the
\* others of its family by the number of the call.
NamedTuple(f, cols) ==
    [id |-> attrs.built[f] + 1, fields |-> [k \in DOMAIN cols |-> FieldName(cols[k])]]

\* self.<f>: the attribute of the object if it has one, else that of the class.
GetAttr(i, f) == IF attrs.inst[i][f] # Absent THEN attrs.inst[i][f] ELSE attrs.class[f]

\* self.<f> = v: an attribute of the object; the class keeps its own.
SetAttr(i, f, v) == [attrs EXCEPT !.inst[i][f] = v]

\* if self.<f> is None: self.<f> = namedtuple(...); then the rows are
\* returned as records of the shape self.<f>.
WithShape(i, f) ==
    IF GetAttr(i, f) = NoneShape
    THEN LET made == NamedTuple(f, Description(f))
         IN  /\ attrs' = [SetAttr(i, f, made) EXCEPT !.built[f] = @ + 1]
             /\ output' = Return(<<made>>, "")
    ELSE /\ attrs' = attrs
         /\ output' = Return(<<GetAttr(i, f)>>, "")

\* get_obsid_common on object i, its query fetching n rows.
GetObsidCommonOn(i, n) ==
    /\ IF n = 0 THEN output' = ReturnNone /\ attrs' = attrs
       ELSE IF n > 1
       THEN output' = OMPDBError("multiple COMMON results for one obsid") /\ attrs' = attrs
       ELSE WithShape(i, "CommonInfo")
    /\ UNCHANGED <<now, tz, common, obslog, transfer, hist, ncalls, rows, writer, ren,
                   held, op, input>>

\* get_observations on object i, its query fetching n rows.
GetObservationsOn(i, n) ==
    /\ IF n = 0 THEN output' = ReturnNone /\ attrs' = attrs
       ELSE WithShape(i, "FullObservationInfo")
    /\ UNCHANGED <<now, tz, common, obslog, transfer, hist, ncalls, rows, writer, ren,
                   held, op, input>>

\* get_fault_summary_dates on object i, its query fetching n rows.
GetFaultSummaryDatesOn(i, n) ==
    /\ IF n = 0 THEN output' = ReturnNone /\ attrs' = attrs
       ELSE WithShape(i, "FaultInfo")
    /\ UNCHANGED <<now, tz, common, obslog, transfer, hist, ncalls, rows, writer, ren,
                   held, op, input>>

InitShape ==
    /\ now = Epoch
    /\ tz = 0
    /\ common = InitCommon
    /\ obslog = <<>>
    /\ transfer = [f \in FileIds |-> "none"]
    /\ hist = [o \in Obsids |-> NoCalls]
    /\ ncalls = 0
    /\ rows = {}
    /\ writer = "none"
    /\ ren = [c \in Callers |-> NoRename]
    /\ held = [c \in LockClients |-> "none"]
    /\ attrs = NoAttrs
    /\ op = [c \in Markers \cup Scanners |-> NoOp]
    /\ input = NoInput
    /\ output = NoOutput

NextShape ==
    \/ \E i \in Instances, n \in 0..MaxLookupRows : GetObsidCommonOn(i, n)
    \/ \E i \in Instances, n \in 0..MaxLookupRows : GetObservationsOn(i, n)
    \/ \E i \in Instances, n \in 0..MaxLookupRows : GetFaultSummaryDatesOn(i, n)

SpecShape == InitShape /\ [][NextShape]_vars

\* C24: the record shape of a family is built at most once in the process,
\* and every call that returns records, on whichever object, returns them in
\* that one shape.
C24_ShapeBuiltOnce ==
    \A f \in Families :
        /\ attrs.built[f] <= 1
        /\ \A i \in Instances, j \in Instances :
              (attrs.inst[i][f] # Absent /\ attrs.inst[j][f] # Absent) =>
                  attrs.inst[i][f] = attrs.inst[j][f]

----------------------------------------------------------------------------
(* The cycle of the caller: find_obs_for_ingestion gives the candidates,   *)
(* each is ingested outside this class, and set_last_caom_mod is called    *)
(* for it; comments and metadata changes arrive at any time.               *)

\* What the cycle knows of an observation: "idle" (not a candidate),
\* "candidate" (returned by the last scan, being ingested), "marked"
\* (set_last_caom_mod called for it), and whether a comment or a metadata
\* change arrived while it was a candidate.
NoCycle == [pc |-> "idle", changed |-> FALSE]

\* The scan of a cycle: every observation it returns becomes a candidate.
\* The next scan is made when no candidate of the last is left.
CycleScan(min_age_hours) ==
    /\ \A o \in Obsids : hist[o].pc # "candidate"
    /\ hist' = [o \in Obsids |->
                   IF o \in FindObsForIngestion(NULL, NULL, FALSE, FALSE, {}, min_age_hours)
                   THEN [pc |-> "candidate", changed |-> FALSE]
                   ELSE hist[o]]
    /\ UNCHANGED <<now, tz, common, obslog, transfer, ncalls, rows, writer, ren, held, op,
                   input, output, attrs>>

\* The ingestion of a candidate has succeeded: it is marked.
CycleMark(obsid) ==
    /\ hist[obsid].pc = "candidate"
    /\ SetLastCaomMod(obsid, FALSE)
    /\ hist' = [hist EXCEPT ![obsid].pc = "marked"]
    /\ UNCHANGED ncalls

\* A comment or a metadata change is remembered if the observation is a
\* candidate then.
CycleChange(obsid) ==
    /\ hist' = [hist EXCEPT ![obsid].changed = @ \/ hist[obsid].pc = "candidate"]
    /\ UNCHANGED ncalls

InitCycle ==
    /\ now = Epoch
    /\ tz \in TzOffsets
    /\ common = InitCommon
    /\ obslog = <<>>
    /\ transfer = [f \in FileIds |-> "none"]
    /\ hist = [o \in Obsids |-> NoCycle]
    /\ ncalls = 0
    /\ rows = {}
    /\ writer = "none"
    /\ ren = [c \in Callers |-> NoRename]
    /\ held = [c \in LockClients |-> "none"]
    /\ attrs = NoAttrs
    /\ op = [c \in Markers \cup Scanners |-> NoOp]
    /\ input = NoInput
    /\ output = NoOutput

NextCycle ==
    \/ Tick
    \/ \E ma \in {0, 4 * TicksPerHour} : CycleScan(ma)
    \/ \E o \in Obsids : CycleMark(o)
    \/ \E o \in Obsids : AddComment(o) /\ CycleChange(o)
    \/ \E o \in Obsids : ModifyObs(o) /\ CycleChange(o)

SpecCycle == InitCycle /\ [][NextCycle]_vars

\* C25: an observation that was commented on, or whose metadata changed,
\* after the scan that returned it and before set_last_caom_mod was called
\* for it, is returned by a scan made after the mark.
C25_NoChangeLost ==
    \A o \in Obsids :
        (hist[o].pc = "marked" /\ hist[o].changed) =>
            o \in FindObsForIngestion(NULL, NULL, FALSE, FALSE, {}, NULL)

----------------------------------------------------------------------------
(* The rows rename_project leaves alone *)

\* What a call, alone in writing since it began, has done to the rows so
\* far: every row is still there, in its table; the rows keyed by another
\* project than project_old are as they were; a row that was keyed by
\* project_old is keyed by it still or by project_new.
OnlyOldChanged(c) ==
    LET r == ren[c]
    IN  (r.pc # "idle" /\ r.alone) =>
            /\ Cardinality(rows) = Cardinality(r.before)
            /\ \A t \in TableNames :
                  Cardinality({x \in rows : x.tbl = t})
                      = Cardinality({x \in r.before : x.tbl = t})
            /\ \A x \in r.before :
                  IF x.projectid # r.old THEN x \in rows
                  ELSE x \in rows \/ [x EXCEPT !.projectid = r.new] \in rows

\* No row was keyed by the project when the call began.
NoRowOf(c, project) == ~\E x \in ren[c].before : x.projectid = project

\* C26 as stated: a call changes the projectid of rows keyed by project_old
\* and nothing else, no table gains or loses a row, and a call made when no
\* row is keyed by project_old succeeds and changes nothing.
C26_RenameFrame ==
    \A c \in Callers :
        /\ OnlyOldChanged(c)
        /\ (ren[c].pc # "idle" /\ NoRowOf(c, ren[c].old)) =>
              /\ ren[c].pc # "failed"
              /\ ren[c].alone => rows = ren[c].before

\* C26: a call changes the projectid of rows keyed by project_old and nothing
\* else, no table gains or loses a row, and a call made when no row is keyed
\* by project_old and none by project_new succeeds and changes nothing.
C26_RenameFrameUnlessNew ==
    \A c \in Callers :
        /\ OnlyOldChanged(c)
        /\ (ren[c].pc # "idle" /\ NoRowOf(c, ren[c].old) /\ NoRowOf(c, ren[c].new)) =>
              /\ ren[c].pc # "failed"
              /\ ren[c].alone => rows = ren[c].before

\* A call has returned after renaming a row of a table that holds a row of
\* a third project, which is as it was.
C26_Witness ==
    \E c \in Callers :
        LET r == ren[c]
        IN  /\ r.pc = "done"
            /\ r.alone
            /\ r.old # r.new
            /\ \E x \in r.before, y \in r.before :
                  /\ x.projectid = r.old
                  /\ [x EXCEPT !.projectid = r.new] \in rows
                  /\ y.projectid \notin {r.old, r.new}
                  /\ y.tbl = x.tbl
                  /\ y \in rows

====
